---------------------------- MODULE Spec2Model ----------------------------
(***************************************************************************)
(* Model of the Pete Alonso at-bat tracker: the detection poll, the        *)
(* follow-up (GIF) queue and its worker (src/alonso_tracker.py), and the   *)
(* Baseball Savant play matcher and GIF maker                              *)
(* (src/baseball_savant_gif_integration.py).                               *)
(*                                                                         *)
(* Spec      the poller and the worker, an attempt being one step          *)
(* SpecLive  the same, with the two threads scheduled fairly               *)
(* SpecGif   the worker on one job, its attempts followed stage by stage   *)
(* SpecMatch one call of the matcher on a play and a catalog answer        *)
(* SpecScore one call of the matcher on rows that differ in the texts      *)
(*           the score looks at                                            *)
(* SpecMets  one call of the matcher by mets_homerun_tracker.py            *)
(* SpecRestart  Spec, the process being stopped and started again          *)
(* SpecDay   Spec, midnight passing during the run                         *)
(*                                                                         *)
(* Time is in seconds.  The clock moves when the worker sleeps between two *)
(* scans and while it is blocked in an attempt; the poller runs every      *)
(* POLL_INTERVAL seconds, before the clock passes the instant it is due,   *)
(* whatever the worker is doing.                                           *)
(* Except under SpecDay a run stays within one calendar day.               *)
(***************************************************************************)
EXTENDS Integers, Sequences, FiniteSets, TLC

VARIABLES
    now,                \* datetime.now(), seconds since the process started
    today,              \* the calendar day datetime.now() falls on
    feed,               \* atBatIndex values of Alonso's plays in the live feed
    processed_at_bats,  \* the global set of at-bat identifiers
    saved_at_bats,      \* content of processed_at_bats.json
    post_calls,         \* calls of client.create_tweet so far, in order
    poll_at,            \* when background_checker's sleep ends
    tweet_gif_queue,    \* the global list of follow-up jobs
    wpc,                \* where the worker thread is in process_gif_queue
    scan_i,             \* the worker's loop index i (1-based)
    items_to_remove,    \* the worker's list of indexes to pop
    busy_until,         \* when the call the worker is blocked in returns
    restarts,           \* times the process was stopped and started again
    mlb_play_data,      \* get_play_animation_url: the play looked for
    all_plays,          \* ... the rows of the /gf answer, home then away
    matched,            \* ... index in all_plays of the row selected, 0: none
    returned,           \* ... what the call returned
    probe,              \* ... what the HEAD request on the video URL answered
    gpc,                \* where the worker is in create_gif_quote_tweet
    files,              \* the files in the alonso_gifs directory
    temp_video,         \* download_and_convert_to_gif: the clip it writes
    gif_path,           \* get_gif_for_play: the path of the GIF to make
    gif_returned,       \* ... what get_gif_for_play returned
    result,             \* what create_gif_quote_tweet returned
    quote_tweets,       \* tweets api_v1.update_status has replied to, in order
    conv,               \* calls of download_and_convert_to_gif that overlap
    touched,            \* ... the scratch files each has opened so far
    monitoring_active,  \* MetsHomeRunTracker: the flag the two loops test
    mon,                \* ... where the thread of monitor_mets_home_runs is
    mpc,                \* ... where the thread of process_gif_queue is
    hr_feed,            \* ... the Mets home runs in the plays of the game
    old_plays,          \* ... how many play ids of earlier games are in
                        \*     processed_plays
    processed_plays,    \* ... the play ids of this game in processed_plays
    home_run_queue,     \* ... the queue of MetsHomeRun objects
    home_run,           \* ... the object the worker has taken from the queue
    hr_jobs,            \* ... the play of every MetsHomeRun object queued
    discord_posts,      \* ... the objects post_home_run has posted
    stopped,            \* ... stop_monitoring has been called
    tracker,            \* mets_dashboard: the global tracker, 0 for None
    auto_started,       \* ... the global auto_started
    instances,          \* ... monitoring_active of each MetsHomeRunTracker made
    threads             \* ... the threads made to run a tracker

pollVars == <<now, today, feed, processed_at_bats, saved_at_bats, post_calls,
              poll_at, tweet_gif_queue, wpc, scan_i, items_to_remove,
              busy_until, restarts>>

\* what the poller and the scans of the worker leave alone
parVars == <<conv, touched>>

\* the state of the other subsystems
metsVars == <<monitoring_active, mon, mpc, hr_feed, old_plays, processed_plays,
              home_run_queue, home_run, hr_jobs, discord_posts, stopped>>

dashVars == <<tracker, auto_started, instances, threads>>

subVars == <<parVars, metsVars, dashVars>>

extVars == <<quote_tweets, subVars>>

schedVars == <<pollVars, extVars>>

matchVars == <<mlb_play_data, all_plays, matched, returned, probe>>

gifVars == <<gpc, files, temp_video, gif_path, gif_returned, result>>

vars == <<schedVars, matchVars, gifVars>>

-----------------------------------------------------------------------------
(* Bounds of the model *)

MaxAtBats == 2          \* plate appearances of the batter in the feed
MaxNowTicks == 126      \* the clock stops after this many sleep intervals
LastPlayTicks == 0      \* plays enter the feed, the process restarts and
                        \* midnight passes up to this sleep interval
MaxCandidates == 2      \* rows in the /gf answer
LongBlockTicks == 60    \* sleep intervals an attempt blocks the worker when
                        \* the upload waits on a rate limit (else none)
MaxCalls == 2           \* calls of create_gif_quote_tweet followed stage by stage
MaxRestarts == 1        \* times the process is stopped and started again
MaxDays == 1            \* midnights during the run

-----------------------------------------------------------------------------
(* Program constants *)

None == -1                  \* item['last_attempt'] = None
GAME_PK == 777483           \* live_data['gamePk'] of the one game followed
MAX_AGE == 1800             \* if time_since_at_bat > 1800
FIRST_WAIT == 30            \* wait_time = 30 / time_since_at_bat < 30
BACKOFF_BASE == 60          \* 60 * (2 ** (attempts - 1))
BACKOFF_CAP == 600          \* min(..., 600)
MAX_ATTEMPTS == 10          \* if item['attempts'] >= 10
SLEEP_INTERVAL == 15        \* time.sleep(15)
POLL_INTERVAL == 60         \* time.sleep(60)

MaxNow == MaxNowTicks * SLEEP_INTERVAL


-----------------------------------------------------------------------------
(* Detection: check_alonso_at_bats and post_tweet_with_gif_followup *)

\* about.inning of the play with atBatIndex p, as the feed reports it
InningOf(p) == p + 5

\* f"{game_id}_{inning}_{play_id}_{datetime.now().strftime('%Y-%m-%d')}"
at_bat_id(p, day) == <<GAME_PK, InningOf(p), p, day>>

\* the plays of the batter in allPlays, in feed order
RECURSIVE extract_alonso_at_bats(_)
extract_alonso_at_bats(S) ==
    IF S = {} THEN <<>>
    ELSE LET p == CHOOSE x \in S : \A y \in S : x <= y
         IN  <<p>> \o extract_alonso_at_bats(S \ {p})

\* a poster that queues the follow-up even when create_tweet threw
post_tweet_always_queues(st, id, outcome, t) ==
    LET tweet_id == Len(st.post_calls) + 1
    IN  [st EXCEPT
           !.post_calls = Append(@, [at_bat_id |-> id, ok |-> outcome = "posted"]),
           !.queue = Append(@, [tweet_id |-> tweet_id,
                                at_bat_id |-> id,
                                timestamp |-> t]),
           !.saved = st.processed]

\* One call of post_tweet_with_gif_followup on the state st of the globals.
\* outcome "posted": create_tweet returned; "raised": it threw, the handler
\* logs and returns None.
post_tweet_with_gif_followup(st, id, outcome, t) ==
    IF outcome = "posted"
    THEN LET tweet_id == Len(st.post_calls) + 1
         IN  [st EXCEPT
                !.post_calls = Append(@, [at_bat_id |-> id, ok |-> TRUE]),
                !.queue = Append(@, [tweet_id |-> tweet_id,
                                     at_bat_id |-> id,
                                     timestamp |-> t]),
                !.saved = st.processed]
    ELSE [st EXCEPT !.post_calls = Append(@, [at_bat_id |-> id, ok |-> FALSE])]

\* a check that takes every at-bat of the feed as new
is_new_at_bat_always(id, processed) == TRUE

\* if at_bat_id not in processed_at_bats
is_new_at_bat(id, processed) == id \notin processed

\* a loop that remembers an at-bat only when its post succeeded
RECURSIVE check_loop_retry(_, _, _, _, _)
check_loop_retry(at_bats, outcomes, st, day, t) ==
    IF at_bats = <<>> THEN st
    ELSE LET p == Head(at_bats)
             id == at_bat_id(p, day)
             st1 == IF is_new_at_bat(id, st.processed)
                    THEN post_tweet_with_gif_followup(st, id, outcomes[p], t)
                    ELSE st
             st2 == IF is_new_at_bat(id, st.processed) /\ outcomes[p] = "posted"
                    THEN [st1 EXCEPT !.processed = @ \cup {id}]
                    ELSE st1
         IN  check_loop_retry(Tail(at_bats), outcomes, st2, day, t)

\* the loop over at_bats in check_alonso_at_bats
RECURSIVE check_loop(_, _, _, _, _)
check_loop(at_bats, outcomes, st, day, t) ==
    IF at_bats = <<>> THEN st
    ELSE LET p == Head(at_bats)
             id == at_bat_id(p, day)
             st2 == IF is_new_at_bat(id, st.processed)
                    THEN [post_tweet_with_gif_followup(st, id, outcomes[p], t)
                            EXCEPT !.processed = @ \cup {id}]
                    ELSE st
         IN  check_loop(Tail(at_bats), outcomes, st2, day, t)

\* a poller that takes a lock the worker holds during an attempt
check_alonso_at_bats_locked ==
    /\ now >= poll_at
    /\ wpc # "attempt"
    /\ poll_at' = now + POLL_INTERVAL
    /\ \E outcomes \in [feed -> {"posted", "raised"}] :
         LET st == check_loop(extract_alonso_at_bats(feed), outcomes,
                              [processed |-> processed_at_bats,
                               saved |-> saved_at_bats,
                               post_calls |-> post_calls,
                               queue |-> tweet_gif_queue],
                              today, now)
         IN  /\ processed_at_bats' = st.processed
             /\ saved_at_bats' = st.saved
             /\ post_calls' = st.post_calls
             /\ tweet_gif_queue' = st.queue
    /\ UNCHANGED <<extVars, restarts, now, today, feed, wpc, scan_i, items_to_remove, busy_until,
                   matchVars, gifVars>>

\* one round of background_checker: check_alonso_at_bats, then time.sleep(60)
check_alonso_at_bats ==
    /\ now >= poll_at
    /\ poll_at' = now + POLL_INTERVAL
    /\ \E outcomes \in [feed -> {"posted", "raised"}] :
         LET st == check_loop(extract_alonso_at_bats(feed), outcomes,
                              [processed |-> processed_at_bats,
                               saved |-> saved_at_bats,
                               post_calls |-> post_calls,
                               queue |-> tweet_gif_queue],
                              today, now)
         IN  /\ processed_at_bats' = st.processed
             /\ saved_at_bats' = st.saved
             /\ post_calls' = st.post_calls
             /\ tweet_gif_queue' = st.queue
    /\ UNCHANGED <<extVars, restarts, now, today, feed, wpc, scan_i, items_to_remove, busy_until,
                   matchVars, gifVars>>

\* the live feed shows one more completed plate appearance
NewPlay ==
    /\ Cardinality(feed) < MaxAtBats
    /\ now <= LastPlayTicks * SLEEP_INTERVAL
    /\ feed' = feed \cup {Cardinality(feed) + 1}
    /\ UNCHANGED <<extVars, restarts, now, today, processed_at_bats, saved_at_bats, post_calls, poll_at,
                   tweet_gif_queue, wpc, scan_i, items_to_remove, busy_until,
                   matchVars, gifVars>>

-----------------------------------------------------------------------------
(* The worker: process_gif_queue *)

Min(a, b) == IF a <= b THEN a ELSE b

\* if 'attempts' not in item: item['attempts'] = 0; item['last_attempt'] = None
with_attempts(item) ==
    IF "attempts" \in DOMAIN item THEN item
    ELSE item @@ [attempts |-> 0, last_attempt |-> None]

\* the wait without the ten-minute cap
wait_time_uncapped(attempts) ==
    IF attempts = 0 THEN FIRST_WAIT ELSE BACKOFF_BASE * (2 ^ (attempts - 1))

\* a wait that does not grow
wait_time_flat(attempts) ==
    IF attempts = 0 THEN FIRST_WAIT ELSE BACKOFF_BASE

\* wait_time, from the attempts made so far
wait_time(attempts) ==
    IF attempts = 0 THEN FIRST_WAIT
    ELSE Min(BACKOFF_BASE * (2 ^ (attempts - 1)), BACKOFF_CAP)

\* a worker that never gives up on age
expired_never(item, t) == FALSE

\* a worker that gives up at 1800 s already
expired_inclusive(item, t) == t - item.timestamp >= MAX_AGE

\* time_since_at_bat > 1800
expired(item, t) == t - item.timestamp > MAX_AGE

\* the tests without the initial wait
must_wait_no_grace(item, t) ==
    IF item.last_attempt # None
    THEN t - item.last_attempt < wait_time(item.attempts)
    ELSE FALSE

\* the tests with the wait still running at its last instant
must_wait_strict(item, t) ==
    IF item.last_attempt # None
    THEN t - item.last_attempt <= wait_time(item.attempts)
    ELSE t - item.timestamp < FIRST_WAIT

\* the two "continue" tests before an attempt
must_wait(item, t) ==
    IF item.last_attempt # None
    THEN t - item.last_attempt < wait_time(item.attempts)
    ELSE t - item.timestamp < FIRST_WAIT

\* a budget of one attempt
gives_up_at_once(item) == item.attempts >= 1

\* if item['attempts'] >= 10, after a failed attempt
gives_up(item) == item.attempts >= MAX_ATTEMPTS

\* list.pop(i), i 1-based here
pop(q, i) == SubSeq(q, 1, i - 1) \o SubSeq(q, i + 1, Len(q))

\* a removal that forgets the marked items
remove_items_none(q, rem) == q

\* a removal that pops in the order the items were marked
RECURSIVE remove_items_forward(_, _)
remove_items_forward(q, rem) ==
    IF rem = <<>> THEN q
    ELSE remove_items_forward(pop(q, rem[1]), Tail(rem))

\* for i in reversed(items_to_remove): tweet_gif_queue.pop(i)
RECURSIVE remove_items(_, _)
remove_items(q, rem) ==
    IF rem = <<>> THEN q
    ELSE remove_items(pop(q, rem[Len(rem)]), SubSeq(rem, 1, Len(rem) - 1))

\* items_to_remove = []; the for loop starts
ScanStart ==
    /\ wpc = "start"
    /\ wpc' = "loop"
    /\ scan_i' = 1
    /\ items_to_remove' = <<>>
    /\ UNCHANGED <<extVars, restarts, now, today, feed, processed_at_bats, saved_at_bats,
                   post_calls, poll_at, tweet_gif_queue, busy_until, matchVars, gifVars>>

\* an attempt that records its time but is not counted
start_attempt_uncounted(item, t) == [item EXCEPT !.last_attempt = t]

\* item['attempts'] += 1; item['last_attempt'] = datetime.now()
start_attempt(item, t) ==
    [item EXCEPT !.attempts = @ + 1, !.last_attempt = t]

\* how long a call of create_gif_quote_tweet may take, in sleep intervals
BlockedTicks == {0, LongBlockTicks}

\* one iteration of the for loop, up to the call of create_gif_quote_tweet,
\* which will return blocked sleep intervals later
ScanItem ==
    /\ wpc = "loop"
    /\ scan_i <= Len(tweet_gif_queue)
    /\ LET item == with_attempts(tweet_gif_queue[scan_i])
       IN  IF expired(item, now)
           THEN /\ tweet_gif_queue' = [tweet_gif_queue EXCEPT ![scan_i] = item]
                /\ items_to_remove' = Append(items_to_remove, scan_i)
                /\ scan_i' = scan_i + 1
                /\ wpc' = "loop"
                /\ busy_until' = busy_until
           ELSE IF must_wait(item, now)
           THEN /\ tweet_gif_queue' = [tweet_gif_queue EXCEPT ![scan_i] = item]
                /\ items_to_remove' = items_to_remove
                /\ scan_i' = scan_i + 1
                /\ wpc' = "loop"
                /\ busy_until' = busy_until
           ELSE /\ tweet_gif_queue' =
                      [tweet_gif_queue EXCEPT ![scan_i] = start_attempt(item, now)]
                /\ items_to_remove' = items_to_remove
                /\ scan_i' = scan_i
                /\ wpc' = "attempt"
                /\ \E blocked \in BlockedTicks :
                     /\ blocked > 0 =>
                          now + (blocked + 1) * SLEEP_INTERVAL <= MaxNow
                     /\ busy_until' = now + blocked * SLEEP_INTERVAL
    /\ UNCHANGED <<extVars, restarts, now, today, feed, processed_at_bats, saved_at_bats,
                   post_calls, poll_at, matchVars, gifVars>>

\* the worker is blocked in create_gif_quote_tweet: the clock moves on to the
\* return of the call, or to the next poll when that comes first (where the
\* stages of the call are followed, the waiting is in the upload and before
\* the return)
AttemptBlocked ==
    /\ wpc = "attempt"
    /\ now < busy_until
    /\ gpc \in {"idle", "publish", "post", "done"}
    /\ now < poll_at                          \* a poll that is due runs first
    /\ now' = Min(busy_until, poll_at)
    /\ UNCHANGED <<extVars, restarts, today, feed, processed_at_bats, saved_at_bats, post_calls,
                   poll_at, tweet_gif_queue, wpc, scan_i, items_to_remove,
                   busy_until, matchVars, gifVars>>

\* the rest of the iteration, once create_gif_quote_tweet has returned success
attempt_end(success) ==
    /\ wpc = "attempt"
    /\ now = busy_until
    /\ items_to_remove' =
         IF success \/ gives_up(tweet_gif_queue[scan_i])
         THEN Append(items_to_remove, scan_i)
         ELSE items_to_remove
    /\ scan_i' = scan_i + 1
    /\ wpc' = "loop"
    /\ UNCHANGED <<extVars, restarts, now, today, feed, processed_at_bats, saved_at_bats,
                   post_calls, poll_at, tweet_gif_queue, busy_until>>

\* an iteration whose failed attempt ends the scan: the rest of the loop and
\* the removals are skipped
AttemptEnd_escapes ==
    /\ \/ attempt_end(TRUE)
       \/ /\ wpc = "attempt"
          /\ now = busy_until
          /\ wpc' = "sleep"
          /\ UNCHANGED <<extVars, restarts, now, today, feed, processed_at_bats, saved_at_bats,
                         post_calls, poll_at, tweet_gif_queue, scan_i,
                         items_to_remove, busy_until>>
    /\ UNCHANGED <<matchVars, gifVars>>

\* create_gif_quote_tweet returns True or False
AttemptEnd ==
    /\ \E success \in BOOLEAN : attempt_end(success)
    /\ UNCHANGED <<matchVars, gifVars>>

\* the for loop is over: pop the marked items
ScanEnd ==
    /\ wpc = "loop"
    /\ scan_i > Len(tweet_gif_queue)
    /\ tweet_gif_queue' = remove_items(tweet_gif_queue, items_to_remove)
    /\ wpc' = "sleep"
    /\ UNCHANGED <<extVars, restarts, now, today, feed, processed_at_bats, saved_at_bats,
                   post_calls, poll_at, scan_i, items_to_remove, busy_until,
                   matchVars, gifVars>>

\* time.sleep(15)
Sleep ==
    /\ wpc = "sleep"
    /\ now + SLEEP_INTERVAL <= MaxNow
    /\ now < poll_at                          \* a poll that is due runs first
    /\ now' = now + SLEEP_INTERVAL
    /\ wpc' = "start"
    /\ UNCHANGED <<extVars, restarts, today, feed, processed_at_bats, saved_at_bats, post_calls, poll_at,
                   tweet_gif_queue, scan_i, items_to_remove, busy_until,
                   matchVars, gifVars>>

-----------------------------------------------------------------------------
(* The matcher: get_play_animation_url *)
(* A Python str is a sequence of one-character strings. *)

\* str.lower(), on the letters the catalog rows use in upper case
LowerChar(c) ==
    CASE c = "A" -> "a" [] c = "H" -> "h" [] c = "L" -> "l" [] c = "P" -> "p"
      [] c = "R" -> "r" [] c = "S" -> "s" [] OTHER -> c

Lower(str) == [k \in 1..Len(str) |-> LowerChar(str[k])]

\* needle in hay
Contains(hay, needle) ==
    \E k \in 0..(Len(hay) - Len(needle)) :
        SubSeq(hay, k + 1, k + Len(needle)) = needle

\* str.replace(' ', '')
IsNotSpace(c) == c # " "
RemoveSpaces(str) == SelectSeq(str, IsNotSpace)

\* str() of an inning: an int, or None when the row has no 'inning'
Str(n) ==
    IF n = None THEN <<"N", "o", "n", "e">>
    ELSE IF n < 10 THEN <<ToString(n)>>
    ELSE <<ToString(n \div 10), ToString(n % 10)>>

\* the contact pitch: pitch_call == 'hit_into_play' or call == 'X'
is_contact(play) == play.pitch_call = "hit_into_play" \/ play.call = "X"

\* a test of the description in both directions
description_matches_either(target_event, play_description) ==
    \/ Contains(play_description, target_event)
    \/ Contains(target_event, play_description)

\* the event text is in the description, spaces ignored or not
description_matches(target_event, play_description) ==
    \/ Contains(play_description, target_event)
    \/ Contains(RemoveSpaces(play_description), RemoveSpaces(target_event))

\* target_event in play_event or play_event in target_event
events_match(target_event, play_event) ==
    Contains(play_event, target_event) \/ Contains(target_event, play_event)

\* 'alonso' in play_batter.lower()
is_alonso(play_batter) == Contains(Lower(play_batter), <<"a", "l", "o", "n", "s", "o">>)

\* str(play_inning) == str(target_inning) and play_uuid, then the batter test
survives(play, target_inning) ==
    /\ Str(play.inning) = Str(target_inning)
    /\ play.play_id # <<>>
    /\ is_alonso(play.batter_name)

\* a score whose contact bonus is no larger than the text bonus
score_weak_contact(play, target_event) ==
      (IF is_contact(play) THEN 100 ELSE 0)
    + (IF description_matches(target_event, Lower(play.des)) THEN 100 ELSE 0)
    + (IF events_match(target_event, Lower(play.events)) THEN 50 ELSE 0)
    + (IF is_alonso(play.batter_name) THEN 25 ELSE 0)

\* the score of a row that passed the filter
score(play, target_event) ==
      (IF is_contact(play) THEN 1000 ELSE 0)
    + (IF description_matches(target_event, Lower(play.des)) THEN 100 ELSE 0)
    + (IF events_match(target_event, Lower(play.events)) THEN 50 ELSE 0)
    + (IF is_alonso(play.batter_name) THEN 25 ELSE 0)

\* best_matches: (score, index of the row) for the rows that pass the filter,
\* in the order of all_plays
RECURSIVE best_matches(_, _, _, _)
best_matches(plays, k, target_event, target_inning) ==
    IF k > Len(plays) THEN <<>>
    ELSE (IF survives(plays[k], target_inning)
          THEN <<[score |-> score(plays[k], target_event), row |-> k]>>
          ELSE <<>>)
         \o best_matches(plays, k + 1, target_event, target_inning)

\* a sort that puts a row before the rows of the same score
RECURSIVE insert_sorted_unstable(_, _)
insert_sorted_unstable(sorted, x) ==
    IF sorted = <<>> THEN <<x>>
    ELSE IF Head(sorted).score > x.score
         THEN <<Head(sorted)>> \o insert_sorted_unstable(Tail(sorted), x)
         ELSE <<x>> \o sorted

\* list.sort(key=lambda x: x[0], reverse=True): stable, descending
RECURSIVE insert_sorted(_, _)
insert_sorted(sorted, x) ==
    IF sorted = <<>> THEN <<x>>
    ELSE IF Head(sorted).score >= x.score
         THEN <<Head(sorted)>> \o insert_sorted(Tail(sorted), x)
         ELSE <<x>> \o sorted

RECURSIVE sort_by_score(_)
sort_by_score(matches) ==
    IF matches = <<>> THEN <<>>
    ELSE insert_sorted(sort_by_score(SubSeq(matches, 1, Len(matches) - 1)),
                       matches[Len(matches)])

\* a selection that takes the last row of the sorted list
select_play_last(play_data, plays) ==
    LET target_event == Lower(play_data.event)
        target_inning == play_data.inning
        sorted == sort_by_score(
                    best_matches(plays, 1, target_event, target_inning))
    IN  IF sorted = <<>> THEN 0 ELSE sorted[Len(sorted)].row

\* the row selected for the play, 0 when best_matches is empty
select_play(play_data, plays) ==
    LET target_event == Lower(play_data.event)
        target_inning == play_data.inning
        sorted == sort_by_score(
                    best_matches(plays, 1, target_event, target_inning))
    IN  IF sorted = <<>> THEN 0 ELSE sorted[1].row

\* what the HEAD request on the video URL may answer
HeadOutcomes == {"200", "404", "timeout"}

\* a fetcher that returns the URL whatever the HEAD request answers
video_url_any_status(sel, play_id, head) ==
    IF sel # 0 THEN <<"webm", play_id>> ELSE <<"None">>

\* the return value: the video URL of the selected row when the HEAD request
\* answers 200, None when no row was selected, on another status and when
\* the request throws (the handler returns None)
video_url(sel, play_id, head) ==
    IF sel # 0 /\ head = "200" THEN <<"webm", play_id>> ELSE <<"None">>

\* one call of get_play_animation_url with the /gf answer all_plays
get_play_animation_url ==
    /\ matched = None
    /\ \E head \in HeadOutcomes :
         LET sel == select_play(mlb_play_data, all_plays)
         IN  /\ matched' = sel
             /\ probe' = IF sel # 0 THEN head ELSE "none"
             /\ returned' = video_url(sel, IF sel # 0 THEN all_plays[sel].play_id
                                           ELSE <<>>, head)
    /\ UNCHANGED <<mlb_play_data, all_plays, schedVars, gifVars>>

\* rows of the catalog the model draws the /gf answer from
Events == {<<"h", "o", "m", "e", " ", "r", "u", "n">>, <<"f", "i", "e", "l", "d", "_", "o", "u", "t">>, <<>>}
Descriptions == {<<"P", "e", "t", "e", " ", "A", "l", "o", "n", "s", "o", " ", "h", "i", "t", "s", " ", "a", " ", "h", "o", "m", "e", " ", "r", "u", "n">>, <<"A", "l", "o", "n", "s", "o", " ", "h", "o", "m", "e", "r", "s">>}
Pitches == {[pitch_call |-> "hit_into_play", call |-> "X"],
            [pitch_call |-> "", call |-> "X"],
            [pitch_call |-> "foul", call |-> "S"]}

SurvivingRows ==
    {[events |-> e, des |-> d, inning |-> 6, batter_name |-> <<"A", "l", "o", "n", "s", "o", ",", " ", "P", "e", "t", "e">>,
      play_id |-> <<"uuid">>, pitch_call |-> p.pitch_call, call |-> p.call] :
        e \in Events, d \in Descriptions, p \in Pitches}

OtherRows ==
    {[events |-> <<"h", "o", "m", "e", " ", "r", "u", "n">>, des |-> <<"P", "e", "t", "e", " ", "A", "l", "o", "n", "s", "o", " ", "h", "i", "t", "s", " ", "a", " ", "h", "o", "m", "e", " ", "r", "u", "n">>,
      inning |-> 7, batter_name |-> <<"A", "l", "o", "n", "s", "o", ",", " ", "P", "e", "t", "e">>, play_id |-> <<"uuid">>,
      pitch_call |-> "hit_into_play", call |-> "X"],
     [events |-> <<"h", "o", "m", "e", " ", "r", "u", "n">>, des |-> <<"P", "e", "t", "e", " ", "A", "l", "o", "n", "s", "o", " ", "h", "i", "t", "s", " ", "a", " ", "h", "o", "m", "e", " ", "r", "u", "n">>,
      inning |-> None, batter_name |-> <<"A", "l", "o", "n", "s", "o", ",", " ", "P", "e", "t", "e">>, play_id |-> <<"uuid">>,
      pitch_call |-> "hit_into_play", call |-> "X"],
     [events |-> <<"h", "o", "m", "e", " ", "r", "u", "n">>, des |-> <<"P", "e", "t", "e", " ", "A", "l", "o", "n", "s", "o", " ", "h", "i", "t", "s", " ", "a", " ", "h", "o", "m", "e", " ", "r", "u", "n">>,
      inning |-> 6, batter_name |-> <<"A", "l", "o", "n", "s", "o", ",", " ", "P", "e", "t", "e">>, play_id |-> <<>>,
      pitch_call |-> "hit_into_play", call |-> "X"],
     [events |-> <<"h", "o", "m", "e", " ", "r", "u", "n">>, des |-> <<"L", "i", "n", "d", "o", "r", " ", "h", "i", "t", "s", " ", "a", " ", "h", "o", "m", "e", " ", "r", "u", "n">>,
      inning |-> 6, batter_name |-> <<"L", "i", "n", "d", "o", "r">>, play_id |-> <<"uuid">>,
      pitch_call |-> "hit_into_play", call |-> "X"]}

CatalogRows == SurvivingRows \cup OtherRows

RowLists == UNION {[1..n -> CatalogRows] : n \in 0..MaxCandidates}

\* the plays looked for: result.event and about.inning of the live feed
PlayData == {[event |-> <<"H", "o", "m", "e", " ", "R", "u", "n">>, inning |-> 6],
             [event |-> <<"S", "t", "r", "i", "k", "e", "o", "u", "t">>, inning |-> 6],
             [event |-> <<"H", "o", "m", "e", " ", "R", "u", "n">>, inning |-> 7]}

-----------------------------------------------------------------------------
(* One attempt: create_gif_quote_tweet, get_gif_for_play and                *)
(* download_and_convert_to_gif, stage by stage.  A file of the directory is *)
(* a record: its kind, the time its name carries (0 for palette.png), and   *)
(* for a GIF whether it is larger than 15 MB.                               *)

File(kind, name, big) == [kind |-> kind, name |-> name, big |-> big]

\* open(..., 'wb') / ffmpeg -y: the file is created or overwritten
Write(fs, f) == {g \in fs : ~(g.kind = f.kind /\ g.name = f.name)} \cup {f}

\* Path.unlink
Unlink(fs, kind, name) == {g \in fs : ~(g.kind = kind /\ g.name = name)}

PALETTE == 0

\* a size check that lets every GIF through
too_large_never(fs, path) == FALSE

\* Path(output_path).stat().st_size > 15 * 1024 * 1024
too_large(fs, path) == File("gif", path, TRUE) \in fs

\* a stage failed in a way that lets the call go on to the upload
attempt_fails_publishes ==
    /\ gif_returned' = gif_path
    /\ result' = result
    /\ gpc' = "publish"

\* a stage failed: get_gif_for_play returns None, create_gif_quote_tweet False
attempt_fails ==
    /\ gif_returned' = None
    /\ result' = "False"
    /\ gpc' = "done"

\* the worker calls create_gif_quote_tweet for the item it attempts
create_gif_quote_tweet ==
    /\ wpc = "attempt"
    /\ gpc = "idle"
    /\ tweet_gif_queue[scan_i].attempts <= MaxCalls
    /\ gpc' = "statcast"
    /\ UNCHANGED <<schedVars, matchVars, files, temp_video, gif_path,
                   gif_returned, result>>

\* get_gif_for_play, step 1: the Statcast search finds a play of the batter
\* or not (None also when the request throws)
get_statcast_data_for_play ==
    /\ gpc = "statcast"
    /\ \E found \in BOOLEAN :
         IF found
         THEN gpc' = "url" /\ UNCHANGED <<gif_returned, result>>
         ELSE attempt_fails
    /\ UNCHANGED <<schedVars, matchVars, files, temp_video, gif_path>>

\* get_gif_for_play, step 2: get_play_animation_url selects a row or none and
\* probes the video URL; with a URL, the path of the GIF is chosen
animation_url_step ==
    /\ gpc = "url"
    /\ \E sel \in {0, 1}, head \in HeadOutcomes :
         /\ matched' = sel
         /\ probe' = IF sel # 0 THEN head ELSE "none"
         /\ returned' = video_url(sel, <<"uuid">>, head)
         /\ IF video_url(sel, <<"uuid">>, head) = <<"None">>
            THEN attempt_fails /\ gif_path' = gif_path
            ELSE /\ gpc' = "download"
                 /\ gif_path' = now
                 /\ UNCHANGED <<gif_returned, result>>
    /\ UNCHANGED <<schedVars, mlb_play_data, all_plays, files, temp_video>>

\* download_and_convert_to_gif: the clip is streamed to temp_video; the
\* request is refused before the file is opened, or breaks while it is written
download ==
    /\ gpc = "download"
    /\ temp_video' = now
    /\ \E outcome \in {"refused", "broken", "ok"} :
         /\ files' = IF outcome = "refused" THEN files
                     ELSE Write(files, File("webm", now, FALSE))
         /\ IF outcome = "ok"
            THEN gpc' = "palette" /\ UNCHANGED <<gif_returned, result>>
            ELSE attempt_fails
    /\ UNCHANGED <<schedVars, matchVars, gif_path>>

\* the first ffmpeg run writes palette.png; when it fails it may have written
\* the file or not
palettegen ==
    /\ gpc = "palette"
    /\ \E ok \in BOOLEAN, wrote \in BOOLEAN :
         /\ ok => wrote
         /\ files' = IF wrote THEN Write(files, File("palette", PALETTE, FALSE))
                     ELSE files
         /\ IF ok
            THEN gpc' = "encode" /\ UNCHANGED <<gif_returned, result>>
            ELSE attempt_fails
    /\ UNCHANGED <<schedVars, matchVars, temp_video, gif_path>>

\* the second ffmpeg run writes the GIF at output_path, of some size; when it
\* fails it may have written a file or not
paletteuse ==
    /\ gpc = "encode"
    /\ \E ok \in BOOLEAN, wrote \in BOOLEAN, big \in BOOLEAN :
         /\ ok => wrote
         /\ ~ok => ~big
         /\ files' = IF wrote THEN Write(files, File("gif", gif_path, big))
                     ELSE files
         /\ IF ok
            THEN gpc' = "size" /\ UNCHANGED <<gif_returned, result>>
            ELSE attempt_fails
    /\ UNCHANGED <<schedVars, matchVars, temp_video, gif_path>>

\* "Clean up", then the size check; get_gif_for_play returns the path when
\* download_and_convert_to_gif returned True
cleanup_and_size_check ==
    /\ gpc = "size"
    /\ files' = Unlink(Unlink(files, "webm", temp_video), "palette", PALETTE)
    /\ IF too_large(files, gif_path)
       THEN attempt_fails
       ELSE /\ gif_returned' = gif_path
            /\ gpc' = "publish"
            /\ result' = result
    /\ UNCHANGED <<schedVars, matchVars, temp_video, gif_path>>

\* an upload that removes the file it has read
media_upload_unlinks ==
    /\ gpc = "publish"
    /\ files' = Unlink(files, "gif", gif_returned)
    /\ \E ok \in BOOLEAN :
         IF ok
         THEN gpc' = "post" /\ result' = result
         ELSE gpc' = "done" /\ result' = "False"
    /\ UNCHANGED <<schedVars, matchVars, temp_video, gif_path, gif_returned>>

\* api_v1.media_upload(gif_path); an exception is caught by the handler of
\* create_gif_quote_tweet, which returns False
media_upload ==
    /\ gpc = "publish"
    /\ \E ok \in BOOLEAN :
         IF ok
         THEN gpc' = "post" /\ result' = result
         ELSE gpc' = "done" /\ result' = "False"
    /\ UNCHANGED <<schedVars, matchVars, files, temp_video, gif_path,
                   gif_returned>>

\* api_v1.update_status(..., in_reply_to_status_id=original_tweet_id); an
\* exception is caught in the same way
update_status ==
    /\ gpc = "post"
    /\ \E ok \in BOOLEAN :
         IF ok
         THEN /\ gpc' = "unlink"
              /\ result' = result
              /\ quote_tweets' =
                    Append(quote_tweets, tweet_gif_queue[scan_i].tweet_id)
         ELSE /\ gpc' = "done"
              /\ result' = "False"
              /\ quote_tweets' = quote_tweets
    /\ UNCHANGED <<pollVars, subVars, matchVars, files, temp_video, gif_path,
                   gif_returned>>

\* Path(gif_path).unlink(missing_ok=True); return True.  An OSError of the
\* unlink (the file or the directory is not writable) is caught by the
\* handler of create_gif_quote_tweet like any other exception: return False
unlink_gif ==
    /\ gpc = "unlink"
    /\ \E ok \in BOOLEAN :
         /\ files' = IF ok THEN Unlink(files, "gif", gif_returned) ELSE files
         /\ result' = IF ok THEN "True" ELSE "False"
    /\ gpc' = "done"
    /\ UNCHANGED <<schedVars, matchVars, temp_video, gif_path, gif_returned>>

\* create_gif_quote_tweet has returned: the rest of the worker's iteration;
\* the locals of the call are gone
AttemptReturn ==
    /\ gpc = "done"
    /\ attempt_end(result = "True")
    /\ gpc' = "idle"
    /\ matched' = 0
    /\ returned' = <<"None">>
    /\ probe' = "none"
    /\ temp_video' = None
    /\ gif_path' = None
    /\ gif_returned' = None
    /\ result' = "none"
    /\ UNCHANGED <<mlb_play_data, all_plays, files>>

-----------------------------------------------------------------------------
(* Calls of download_and_convert_to_gif that overlap.  Every tracker, in
   every process, builds its BaseballSavantGIFIntegration on the same
   directory tempfile.gettempdir()/alonso_gifs; calls overlap when the Alonso
   tracker and the Mets dashboard run on one machine, or when two worker
   threads of the dashboard run.  Here two calls are followed stage by stage
   on the one directory, with the clock in seconds. *)

MaxInvocations == 2
MaxParSeconds == 1

Invocations == 1..MaxInvocations

Idle == [pc |-> "idle", temp_video |-> None, output_path |-> None,
         result |-> "none"]

ParInit ==
    /\ conv = [k \in Invocations |-> Idle]
    /\ touched = {}

\* the call k opens a file of the directory
Touch(k, kind, name) == touched \cup {[by |-> k, kind |-> kind, name |-> name]}

\* the call k returns
conv_return(k, value) ==
    /\ conv' = [conv EXCEPT ![k] = [Idle EXCEPT !.result = value]]
    /\ touched' = {a \in touched : a.by # k}

\* a second of the clock passes
Tick ==
    /\ now < MaxParSeconds
    /\ now' = now + 1
    /\ UNCHANGED <<today, feed, processed_at_bats, saved_at_bats, post_calls,
                   poll_at, tweet_gif_queue, wpc, scan_i, items_to_remove,
                   busy_until, restarts, extVars, matchVars, gifVars>>

\* temp_video = self.temp_dir / f"temp_video_{int(time.time())}.webm"; the
\* caller made output_path from the time and its own play
conv_begin(k) ==
    /\ conv[k].pc = "idle"
    /\ conv' = [conv EXCEPT ![k] = [pc |-> "download", temp_video |-> now,
                                    output_path |-> <<now, k>>,
                                    result |-> "none"]]
    /\ UNCHANGED <<pollVars, quote_tweets, metsVars, dashVars, touched, matchVars, gifVars>>

\* requests.get, then the chunks are written to temp_video; the request is
\* refused before the file is opened, or breaks while it is written
conv_download(k) ==
    /\ conv[k].pc = "download"
    /\ \E outcome \in {"refused", "broken", "ok"} :
         /\ files' = IF outcome = "refused" THEN files
                     ELSE Write(files, File("webm", conv[k].temp_video, FALSE))
         /\ IF outcome = "ok"
            THEN /\ conv' = [conv EXCEPT ![k].pc = "palette"]
                 /\ touched' = Touch(k, "webm", conv[k].temp_video)
            ELSE conv_return(k, "False")
    /\ UNCHANGED <<pollVars, quote_tweets, metsVars, dashVars, matchVars, gpc,
                   temp_video,
                   gif_path, gif_returned, result>>

\* the first ffmpeg run reads temp_video and writes palette.png; it fails
\* when temp_video is not there, and it may fail otherwise
conv_palettegen(k) ==
    /\ conv[k].pc = "palette"
    /\ \E ok \in BOOLEAN, wrote \in BOOLEAN :
         /\ ok => wrote
         /\ ok => File("webm", conv[k].temp_video, FALSE) \in files
         /\ files' = IF wrote THEN Write(files, File("palette", PALETTE, FALSE))
                     ELSE files
         /\ IF ok
            THEN /\ conv' = [conv EXCEPT ![k].pc = "encode"]
                 /\ touched' = Touch(k, "palette", PALETTE)
            ELSE conv_return(k, "False")
    /\ UNCHANGED <<pollVars, quote_tweets, metsVars, dashVars, matchVars, gpc,
                   temp_video,
                   gif_path, gif_returned, result>>

\* the second ffmpeg run reads temp_video and palette.png and writes
\* output_path
conv_paletteuse(k) ==
    /\ conv[k].pc = "encode"
    /\ \E ok \in BOOLEAN, wrote \in BOOLEAN :
         /\ ok => wrote
         /\ ok => /\ File("webm", conv[k].temp_video, FALSE) \in files
                  /\ File("palette", PALETTE, FALSE) \in files
         /\ files' = IF wrote
                     THEN Write(files, File("gif", conv[k].output_path, FALSE))
                     ELSE files
         /\ IF ok
            THEN /\ conv' = [conv EXCEPT ![k].pc = "cleanup"]
                 /\ touched' = touched
            ELSE conv_return(k, "False")
    /\ UNCHANGED <<pollVars, quote_tweets, metsVars, dashVars, matchVars, gpc,
                   temp_video,
                   gif_path, gif_returned, result>>

\* temp_video.unlink(), which raises when the file is not there, then
\* palette.png.unlink(missing_ok=True); return True
conv_cleanup(k) ==
    /\ conv[k].pc = "cleanup"
    /\ IF File("webm", conv[k].temp_video, FALSE) \in files
       THEN /\ files' = Unlink(Unlink(files, "webm", conv[k].temp_video),
                               "palette", PALETTE)
            /\ conv_return(k, "True")
       ELSE /\ files' = files
            /\ conv_return(k, "False")
    /\ UNCHANGED <<pollVars, quote_tweets, metsVars, dashVars, matchVars, gpc,
                   temp_video,
                   gif_path, gif_returned, result>>

download_and_convert_to_gif ==
    \E k \in Invocations :
        \/ conv_begin(k)
        \/ conv_download(k)
        \/ conv_palettegen(k)
        \/ conv_paletteuse(k)
        \/ conv_cleanup(k)

NextPar ==
    \/ Tick
    \/ download_and_convert_to_gif

-----------------------------------------------------------------------------
(* The Mets home-run tracker: one MetsHomeRunTracker object, the thread of
   monitor_mets_home_runs the dashboard started for it, and the thread of
   process_gif_queue that one starts.  processed_plays is followed as the
   play ids of the game monitored, and the number of the other ids in it. *)

MaxHomeRuns == 1        \* home runs of the Mets in the game
MaxJobs == 2            \* MetsHomeRun objects made in a run

MAX_SAVED == 200        \* save_processed_plays keeps 200 play ids
MAX_POST_ATTEMPTS == 5  \* attempts of the Mets worker on one home run

NoJob == [play_id |-> None]

\* the play ids the file processed_mets_hrs.pkl may hold when the tracker is
\* made: none, or the 200 of the home runs before this game
LoadedPlays == {0, MAX_SAVED}

MetsInit ==
    /\ monitoring_active = FALSE
    /\ mon = "none"
    /\ mpc = "none"
    /\ hr_feed = {}
    /\ old_plays = 0
    /\ processed_plays = {}
    /\ home_run_queue = <<>>
    /\ home_run = NoJob
    /\ hr_jobs = <<>>
    /\ discord_posts = <<>>
    /\ stopped = FALSE

\* the rest of the state, left alone by the tracker
notMets == <<pollVars, quote_tweets, parVars, dashVars, matchVars, gifVars>>

\* the game's plays show one more home run of the Mets
NewHomeRun ==
    /\ Cardinality(hr_feed) < MaxHomeRuns
    /\ hr_feed' = hr_feed \cup {Cardinality(hr_feed) + 1}
    /\ UNCHANGED <<monitoring_active, mon, mpc, old_plays, processed_plays,
                   home_run_queue, home_run, hr_jobs, discord_posts, stopped,
                   notMets>>

\* is_mets_home_run: the home runs of the plays whose id is not processed
is_mets_home_run(plays, processed) == {p \in plays : p \notin processed}

\* the home runs of a set, in the order of the plays
RECURSIVE in_order(_)
in_order(S) ==
    IF S = {} THEN <<>>
    ELSE LET p == CHOOSE x \in S : \A y \in S : x <= y
         IN  <<p>> \o in_order(S \ {p})

\* the MetsHomeRun objects made for the plays ps, the first with serial n + 1
new_jobs(ps, n) ==
    [k \in 1..Len(ps) |->
        [play_id |-> ps[k], attempts |-> 0, discord_posted |-> FALSE,
         serial |-> n + k]]

\* a save that keeps every play id
save_keeps_all(old, plays) == {[old |-> old, plays |-> plays]}

\* save_processed_plays: when there are more than 200 ids,
\* set(list(recent_plays)[-200:]) keeps some 200 of them (the order of a set
\* of strings is that of their hashes); the others are the ones dropped
save_processed_plays(old, plays) ==
    LET n == old + Cardinality(plays)
    IN  IF n > MAX_SAVED
        THEN {[old |-> old - (n - MAX_SAVED - Cardinality(D)), plays |-> plays \ D] :
                D \in {E \in SUBSET plays :
                          /\ Cardinality(E) <= n - MAX_SAVED
                          /\ n - MAX_SAVED - Cardinality(E) <= old}}
        ELSE {[old |-> old, plays |-> plays]}

\* the dashboard makes the tracker and a thread for it: __init__ with
\* load_processed_plays
load_processed_plays ==
    /\ mon = "none"
    /\ mon' = "new"
    /\ old_plays' \in LoadedPlays
    /\ UNCHANGED <<monitoring_active, mpc, hr_feed, processed_plays,
                   home_run_queue, home_run, hr_jobs, discord_posts, stopped,
                   notMets>>

\* the thread the dashboard started runs monitor_mets_home_runs:
\* self.monitoring_active = True, and the worker thread is started
monitor_start ==
    /\ mon = "new"
    /\ monitoring_active' = TRUE
    /\ mon' = "loop"
    /\ mpc' = "test"
    /\ UNCHANGED <<hr_feed, old_plays, processed_plays, home_run_queue,
                   home_run, hr_jobs, discord_posts, stopped, notMets>>

\* one cycle of the monitoring loop: every new home run is added to
\* processed_plays and queued, then save_processed_plays; or the loop ends
monitor_cycle ==
    /\ mon = "loop"
    /\ IF monitoring_active
       THEN LET found == in_order(is_mets_home_run(hr_feed, processed_plays))
            IN  /\ Len(hr_jobs) + Len(found) <= MaxJobs
                /\ home_run_queue' =
                      home_run_queue \o new_jobs(found, Len(hr_jobs))
                /\ hr_jobs' = hr_jobs \o found
                /\ \E kept \in save_processed_plays(old_plays,
                                                     processed_plays \cup hr_feed) :
                      /\ old_plays' = kept.old
                      /\ processed_plays' = kept.plays
                /\ UNCHANGED <<mon, monitoring_active>>
       ELSE /\ mon' = "exited"
            /\ monitoring_active' = FALSE
            /\ UNCHANGED <<old_plays, processed_plays, home_run_queue, hr_jobs>>
    /\ UNCHANGED <<mpc, hr_feed, home_run, discord_posts, stopped, notMets>>

\* stop_monitoring, called by the dashboard on its tracker
mets_stop_monitoring ==
    /\ mon # "none"
    /\ ~stopped
    /\ monitoring_active' = FALSE
    /\ stopped' = TRUE
    /\ UNCHANGED <<mon, mpc, hr_feed, old_plays, processed_plays,
                   home_run_queue, home_run, hr_jobs, discord_posts, notMets>>

workerFrame == <<monitoring_active, mon, hr_feed, old_plays, processed_plays,
                 hr_jobs, stopped, notMets>>

\* while self.monitoring_active
worker_test ==
    /\ mpc = "test"
    /\ mpc' = IF monitoring_active THEN "get" ELSE "exited"
    /\ UNCHANGED <<home_run_queue, home_run, discord_posts, workerFrame>>

\* if home_run.attempts >= 5: continue; home_run.attempts += 1
takes_job(job) ==
    IF job.attempts >= MAX_POST_ATTEMPTS
    THEN /\ home_run' = NoJob
         /\ mpc' = "test"
    ELSE /\ home_run' = [job EXCEPT !.attempts = @ + 1]
         /\ mpc' = "post"

\* if not self.home_run_queue.empty(): home_run = get_nowait()
worker_get ==
    /\ mpc = "get"
    /\ IF home_run_queue = <<>>
       THEN /\ mpc' = "sleep"
            /\ UNCHANGED <<home_run_queue, home_run>>
       ELSE /\ home_run_queue' = Tail(home_run_queue)
            /\ takes_job(Head(home_run_queue))
    /\ UNCHANGED <<discord_posts, workerFrame>>

\* a worker that queues the object again after every failed post
after_failure_always(job) == "requeue"

\* if home_run.attempts < 5: sleep 60 and requeue; else the object is dropped
after_failure(job) ==
    IF job.attempts < MAX_POST_ATTEMPTS THEN "requeue" ELSE "sleep"

\* the GIF is made or not, then post_home_run, which returns True or False
worker_post ==
    /\ mpc = "post"
    /\ \E success \in BOOLEAN :
         IF success
         THEN /\ discord_posts' = Append(discord_posts, home_run.serial)
              /\ home_run' = NoJob
              /\ mpc' = "sleep"
         ELSE /\ discord_posts' = discord_posts
              /\ mpc' = after_failure(home_run)
              /\ home_run' = IF after_failure(home_run) = "requeue"
                             THEN home_run ELSE NoJob
    /\ UNCHANGED <<home_run_queue, workerFrame>>

\* time.sleep(60); self.home_run_queue.put(home_run)
worker_requeue ==
    /\ mpc = "requeue"
    /\ home_run_queue' = Append(home_run_queue, home_run)
    /\ home_run' = NoJob
    /\ mpc' = "sleep"
    /\ UNCHANGED <<discord_posts, workerFrame>>

\* time.sleep(10)
worker_sleep ==
    /\ mpc = "sleep"
    /\ mpc' = "test"
    /\ UNCHANGED <<home_run_queue, home_run, discord_posts, workerFrame>>

NextHomeRun ==
    \/ NewHomeRun
    \/ load_processed_plays
    \/ monitor_start
    \/ monitor_cycle
    \/ mets_stop_monitoring
    \/ worker_test
    \/ worker_get
    \/ worker_post
    \/ worker_requeue
    \/ worker_sleep

-----------------------------------------------------------------------------
(* The dashboard: the requests GET /, POST /api/start and POST /api/stop on
   the globals tracker and auto_started, and the threads they start.  Each
   request handler is followed as one step. *)

MaxTrackers == 3        \* MetsHomeRunTracker objects made in a run

DashInit ==
    /\ tracker = 0
    /\ auto_started = FALSE
    /\ instances = <<>>
    /\ threads = <<>>

notDash == <<pollVars, quote_tweets, parVars, metsVars, matchVars, gifVars>>

\* tracker = MetsHomeRunTracker(); Thread(target=run_tracker).start()
make_tracker ==
    /\ Len(instances) < MaxTrackers
    /\ instances' = Append(instances, FALSE)
    /\ tracker' = Len(instances) + 1
    /\ threads' = Append(threads, [pc |-> "created", on |-> 0])

\* if tracker and tracker.monitoring_active: 'Already monitoring'
start_rejected == tracker # 0 /\ instances[tracker]

\* GET /: auto_start_tracker, which acts when auto_started is not set
auto_start_tracker ==
    /\ ~auto_started
    /\ make_tracker
    /\ auto_started' = TRUE
    /\ UNCHANGED notDash

\* POST /api/start
start_monitoring ==
    /\ ~start_rejected
    /\ make_tracker
    /\ UNCHANGED <<auto_started, notDash>>

\* POST /api/stop: tracker.stop_monitoring(); tracker = None
stop_monitoring ==
    /\ tracker # 0
    /\ instances' = [instances EXCEPT ![tracker] = FALSE]
    /\ tracker' = 0
    /\ UNCHANGED <<auto_started, threads, notDash>>

\* run_tracker: tracker.monitor_mets_home_runs(...) on the tracker the
\* global names when the thread runs; monitor_mets_home_runs sets
\* monitoring_active; with the global None the call raises and the thread
\* ends
run_tracker(t) ==
    /\ threads[t].pc = "created"
    /\ IF tracker = 0
       THEN /\ threads' = [threads EXCEPT ![t].pc = "ended"]
            /\ instances' = instances
       ELSE /\ threads' = [threads EXCEPT ![t] = [pc |-> "monitor",
                                                  on |-> tracker]]
            /\ instances' = [instances EXCEPT ![tracker] = TRUE]
    /\ UNCHANGED <<tracker, auto_started, notDash>>

\* while self.monitoring_active: ...; finally: self.monitoring_active = False
monitor_exit(t) ==
    /\ threads[t].pc = "monitor"
    /\ ~instances[threads[t].on]
    /\ threads' = [threads EXCEPT ![t].pc = "ended"]
    /\ instances' = instances
    /\ UNCHANGED <<tracker, auto_started, notDash>>

NextDash ==
    \/ auto_start_tracker
    \/ start_monitoring
    \/ stop_monitoring
    \/ \E t \in DOMAIN threads : run_tracker(t)
    \/ \E t \in DOMAIN threads : monitor_exit(t)

-----------------------------------------------------------------------------
\* the state of what lies outside the poller, the scans and one attempt
ExtInit ==
    /\ quote_tweets = <<>>
    /\ ParInit
    /\ MetsInit
    /\ DashInit

-----------------------------------------------------------------------------
Init ==
    /\ now = 0
    /\ today = 0
    /\ feed = {}
    /\ processed_at_bats = {}
    /\ saved_at_bats = {}
    /\ post_calls = <<>>
    /\ poll_at = 0
    /\ tweet_gif_queue = <<>>
    /\ wpc = "start"
    /\ scan_i = 1
    /\ items_to_remove = <<>>
    /\ busy_until = 0
    /\ restarts = 0
    /\ ExtInit
    /\ mlb_play_data = [event |-> <<>>, inning |-> None]
    /\ all_plays = <<>>
    /\ matched = 0
    /\ returned = <<"None">>
    /\ probe = "none"
    /\ gpc = "idle"
    /\ files = {}
    /\ temp_video = None
    /\ gif_path = None
    /\ gif_returned = None
    /\ result = "none"

Next ==
    \/ NewPlay
    \/ check_alonso_at_bats
    \/ ScanStart
    \/ ScanItem
    \/ AttemptBlocked
    \/ AttemptEnd
    \/ ScanEnd
    \/ Sleep

Spec == Init /\ [][Next]_vars

\* The program keeps running: while a step of a thread or of the clock is
\* possible, one is taken.  (The poller can take only one step per minute of
\* the clock, so it cannot keep the worker from running.)
Fairness == WF_vars(Next)

SpecLive == Init /\ [][Next]_vars /\ Fairness

\* One call of the matcher on a play and a /gf answer drawn from the catalog
InitMatch ==
    /\ now = 0
    /\ today = 0
    /\ feed = {}
    /\ processed_at_bats = {}
    /\ saved_at_bats = {}
    /\ post_calls = <<>>
    /\ poll_at = 0
    /\ tweet_gif_queue = <<>>
    /\ wpc = "start"
    /\ scan_i = 1
    /\ items_to_remove = <<>>
    /\ busy_until = 0
    /\ restarts = 0
    /\ ExtInit
    /\ mlb_play_data \in PlayData
    /\ all_plays \in RowLists
    /\ matched = None
    /\ returned = <<"None">>
    /\ probe = "none"
    /\ gpc = "idle"
    /\ files = {}
    /\ temp_video = None
    /\ gif_path = None
    /\ gif_returned = None
    /\ result = "none"

NextMatch == get_play_animation_url

SpecMatch == InitMatch /\ [][NextMatch]_vars

\* The worker with the stages of its attempts, on the job of one at-bat that
\* the first poll has posted
InitGif ==
    /\ now = 0
    /\ today = 0
    /\ feed = {1}
    /\ processed_at_bats = {at_bat_id(1, 0)}
    /\ saved_at_bats = {}
    /\ post_calls = <<[at_bat_id |-> at_bat_id(1, 0), ok |-> TRUE]>>
    /\ poll_at = POLL_INTERVAL
    /\ tweet_gif_queue = <<[tweet_id |-> 1, at_bat_id |-> at_bat_id(1, 0),
                            timestamp |-> 0]>>
    /\ wpc = "start"
    /\ scan_i = 1
    /\ items_to_remove = <<>>
    /\ busy_until = 0
    /\ restarts = 0
    /\ ExtInit
    /\ mlb_play_data = [event |-> <<>>, inning |-> None]
    /\ all_plays = <<>>
    /\ matched = 0
    /\ returned = <<"None">>
    /\ probe = "none"
    /\ gpc = "idle"
    /\ files = {}
    /\ temp_video = None
    /\ gif_path = None
    /\ gif_returned = None
    /\ result = "none"

NextGif ==
    \/ check_alonso_at_bats
    \/ ScanStart
    \/ ScanItem
    \/ AttemptBlocked
    \/ create_gif_quote_tweet
    \/ get_statcast_data_for_play
    \/ animation_url_step
    \/ download
    \/ palettegen
    \/ paletteuse
    \/ cleanup_and_size_check
    \/ media_upload
    \/ update_status
    \/ unlink_gif
    \/ AttemptReturn
    \/ ScanEnd
    \/ Sleep

SpecGif == InitGif /\ [][NextGif]_vars

\* Rows and plays for the text tests of the score.  The events field of a
\* row is the event of the play, a part of it, or empty (a pitch that did
\* not end the plate appearance); the play's event is the
\* result.event of the feed or, as create_gif_quote_tweet passes it, the
\* description of the play.
ScoreEvents == {<<"h", "o", "m", "e", " ", "r", "u", "n">>, <<"h", "o", "m", "e">>, <<>>}
ScoreDescriptions ==
    {<<"P", "e", "t", "e", " ", "A", "l", "o", "n", "s", "o", " ", "h", "i", "t", "s", " ", "a", " ", "h", "o", "m", "e", " ", "r", "u", "n">>,
     <<"A", "l", "o", "n", "s", "o", " ", "h", "o", "m", "e", "r", "s">>,
     <<"A", "l", "o", "n", "s", "o", " ", "s", "t", "r", "i", "k", "e", " ", "o", "u", "t">>}
ScorePitches == {[pitch_call |-> "hit_into_play", call |-> "X"],
                 [pitch_call |-> "foul", call |-> "S"]}

ScoreRows ==
    {[events |-> e, des |-> d, inning |-> 6, batter_name |-> <<"A", "l", "o", "n", "s", "o", ",", " ", "P", "e", "t", "e">>,
      play_id |-> <<"uuid">>, pitch_call |-> p.pitch_call, call |-> p.call] :
        e \in ScoreEvents, d \in ScoreDescriptions, p \in ScorePitches}

ScorePlayData ==
    {[event |-> <<"H", "o", "m", "e", " ", "R", "u", "n">>, inning |-> 6],
     [event |-> <<"S", "t", "r", "i", "k", "e", "o", "u", "t">>, inning |-> 6],
     [event |-> <<"A", "l", "o", "n", "s", "o", " ", "h", "o", "m", "e", "r", "s", " ", "t", "o", " ", "l", "e", "f", "t">>, inning |-> 6]}

InitScore ==
    /\ now = 0
    /\ today = 0
    /\ feed = {}
    /\ processed_at_bats = {}
    /\ saved_at_bats = {}
    /\ post_calls = <<>>
    /\ poll_at = 0
    /\ tweet_gif_queue = <<>>
    /\ wpc = "start"
    /\ scan_i = 1
    /\ items_to_remove = <<>>
    /\ busy_until = 0
    /\ restarts = 0
    /\ ExtInit
    /\ mlb_play_data \in ScorePlayData
    /\ all_plays \in UNION {[1..n -> ScoreRows] : n \in 0..MaxCandidates}
    /\ matched = None
    /\ returned = <<"None">>
    /\ probe = "none"
    /\ gpc = "idle"
    /\ files = {}
    /\ temp_video = None
    /\ gif_path = None
    /\ gif_returned = None
    /\ result = "none"

NextScore == get_play_animation_url

SpecScore == InitScore /\ [][NextScore]_vars

\* the home runs mets_homerun_tracker.py asks a GIF for: result.event is
\* 'Home Run', about.inning the inning of the home run, and the batter
\* (home_run.player_name) any batter of the team
MetsPlayData ==
    {[event |-> <<"H", "o", "m", "e", " ", "R", "u", "n">>, inning |-> 6,
      batter |-> b] : b \in {<<"A", "l", "o", "n", "s", "o">>,
                             <<"L", "i", "n", "d", "o", "r">>}}

\* One call of the matcher for a home run of the team
InitMets ==
    /\ now = 0
    /\ today = 0
    /\ feed = {}
    /\ processed_at_bats = {}
    /\ saved_at_bats = {}
    /\ post_calls = <<>>
    /\ poll_at = 0
    /\ tweet_gif_queue = <<>>
    /\ wpc = "start"
    /\ scan_i = 1
    /\ items_to_remove = <<>>
    /\ busy_until = 0
    /\ restarts = 0
    /\ ExtInit
    /\ mlb_play_data \in MetsPlayData
    /\ all_plays \in RowLists
    /\ matched = None
    /\ returned = <<"None">>
    /\ probe = "none"
    /\ gpc = "idle"
    /\ files = {}
    /\ temp_video = None
    /\ gif_path = None
    /\ gif_returned = None
    /\ result = "none"

NextMets == get_play_animation_url

SpecMets == InitMets /\ [][NextMets]_vars

\* load_processed_at_bats: set(data.get('at_bats', [])) of the file that
\* save_processed_at_bats wrote, the empty set when there is no file
load_processed_at_bats(file) == file

\* The process is stopped and started again: __main__ loads the file and
\* starts the two threads.  The tweets posted, the file and the GIF directory
\* remain; the queue, which lives in memory only, starts empty.
Restart ==
    /\ restarts < MaxRestarts
    /\ now <= LastPlayTicks * SLEEP_INTERVAL
    /\ restarts' = restarts + 1
    /\ processed_at_bats' = load_processed_at_bats(saved_at_bats)
    /\ tweet_gif_queue' = <<>>
    /\ poll_at' = now
    /\ wpc' = "start"
    /\ scan_i' = 1
    /\ items_to_remove' = <<>>
    /\ busy_until' = 0
    /\ gpc' = "idle"
    /\ temp_video' = None
    /\ gif_path' = None
    /\ gif_returned' = None
    /\ result' = "none"
    /\ UNCHANGED <<now, today, feed, saved_at_bats, post_calls, matchVars,
                   files, extVars>>

NextRestart == Next \/ Restart

SpecRestart == Init /\ [][NextRestart]_vars

\* midnight: datetime.now().strftime('%Y-%m-%d') changes; the game followed
\* stays in the schedule (a game that is suspended and resumed the day after,
\* or a clock whose date is behind the one of the schedule)
Midnight ==
    /\ today < MaxDays
    /\ now <= LastPlayTicks * SLEEP_INTERVAL
    /\ today' = today + 1
    /\ UNCHANGED <<now, feed, processed_at_bats, saved_at_bats, post_calls,
                   poll_at, tweet_gif_queue, wpc, scan_i, items_to_remove,
                   busy_until, restarts, matchVars, gifVars, extVars>>

NextDay == Next \/ Midnight

SpecDay == Init /\ [][NextDay]_vars

-----------------------------------------------------------------------------
(* The worker with the pipeline of one job fixed.  The job of the first
   plate appearance has a pipeline of its own that does not depend on
   anything else: a call of create_gif_quote_tweet for it returns at once,
   False until the call number OwnSuccessAt and True then.  The calls for
   the other job take and return what they may. *)

OwnSuccessAt == 3

\* the job is the one of the first plate appearance
IsOwn(item) == item.at_bat_id = at_bat_id(1, today)

\* what create_gif_quote_tweet returns for that job
own_result(item) == item.attempts >= OwnSuccessAt

\* an iteration of the for loop; a call for the own job does not block
ScanItemOwn ==
    /\ ScanItem
    /\ (wpc' = "attempt" /\ IsOwn(tweet_gif_queue[scan_i]))
          => busy_until' = now

\* the rest of the iteration; the call for the own job returned own_result
AttemptEndOwn ==
    /\ wpc = "attempt"
    /\ IF IsOwn(tweet_gif_queue[scan_i])
       THEN attempt_end(own_result(tweet_gif_queue[scan_i]))
       ELSE \E success \in BOOLEAN : attempt_end(success)
    /\ UNCHANGED <<matchVars, gifVars>>

NextIndep ==
    \/ NewPlay
    \/ check_alonso_at_bats
    \/ ScanStart
    \/ ScanItemOwn
    \/ AttemptBlocked
    \/ AttemptEndOwn
    \/ ScanEnd
    \/ Sleep

SpecIndep == Init /\ [][NextIndep]_vars

\* The loop of process_gif_queue run on the job alone, from the scan at time
\* t on: the transition by which the job leaves the queue.
RECURSIVE alone(_, _)
alone(item, t) ==
    IF expired(item, t) THEN "EXPIRED"
    ELSE IF must_wait(item, t) THEN alone(item, t + SLEEP_INTERVAL)
    ELSE LET started == start_attempt(item, t)
         IN  IF own_result(started) THEN "SUCCEEDED"
             ELSE IF gives_up(started) THEN "ABANDONED"
             ELSE alone(started, t + SLEEP_INTERVAL)

SpecPar == Init /\ [][NextPar]_vars

SpecDash == Init /\ [][NextDash]_vars

SpecHomeRun == Init /\ [][NextHomeRun]_vars

-----------------------------------------------------------------------------
(* Properties of the follow-up queue *)

Attempts(item) == IF "attempts" \in DOMAIN item THEN item.attempts ELSE 0
LastAttempt(item) ==
    IF "attempts" \in DOMAIN item THEN item.last_attempt ELSE None
Age(item) == now - item.timestamp
Marked == {items_to_remove[k] : k \in DOMAIN items_to_remove}

\* the worker takes a step of the for loop on item scan_i
ExaminesItem ==
    /\ wpc = "loop"
    /\ scan_i <= Len(tweet_gif_queue)
    /\ <<wpc, scan_i>>' # <<wpc, scan_i>>

\* ... and that step starts an attempt on it
StartsAttempt == ExaminesItem /\ wpc' = "attempt"

\* ... and that step marks it for removal
MarksItem == ExaminesItem /\ items_to_remove' = Append(items_to_remove, scan_i)

\* C1: the follow-up queue never holds two jobs for the same at-bat
\* identifier, whatever polls and scans have happened.
C1_OneJobPerAtBat ==
    \A i, j \in DOMAIN tweet_gif_queue :
        i # j => tweet_gif_queue[i].at_bat_id # tweet_gif_queue[j].at_bat_id

\* a poll has run after the one that queued a job still in the queue, and
\* the queue holds the jobs of two at-bats
C1_Witness ==
    /\ Len(tweet_gif_queue) = 2
    /\ \E i \in DOMAIN tweet_gif_queue :
         /\ tweet_gif_queue[i].timestamp + POLL_INTERVAL < poll_at
         /\ tweet_gif_queue[i].at_bat_id \in processed_at_bats

\* C2 as stated: in every state every queued job has attempts <= MAX_ATTEMPTS
\* and age <= MAX_AGE.
C2_Original ==
    \A i \in DOMAIN tweet_gif_queue :
        /\ Attempts(tweet_gif_queue[i]) <= MAX_ATTEMPTS
        /\ Age(tweet_gif_queue[i]) <= MAX_AGE

\* C2, amended: every queued job has attempts <= MAX_ATTEMPTS, and a scan
\* never leaves in place (skips or attempts) a job it finds older than
\* MAX_AGE; between two scans a queued job may be older than MAX_AGE.
C2_AgeCheckedAtScan ==
    /\ [](\A i \in DOMAIN tweet_gif_queue :
            Attempts(tweet_gif_queue[i]) <= MAX_ATTEMPTS)
    /\ [][ExaminesItem /\ ~MarksItem
            => Age(tweet_gif_queue[scan_i]) <= MAX_AGE]_vars

\* a job older than MAX_AGE is still queued when the worker wakes up
C2_Witness ==
    /\ wpc = "start"
    /\ \E i \in DOMAIN tweet_gif_queue : Age(tweet_gif_queue[i]) > MAX_AGE

\* C3 as stated: a job examined at age >= MAX_AGE, exactly 1800 s included,
\* is marked for removal without an attempt.
C3_Original ==
    [][ExaminesItem /\ Age(tweet_gif_queue[scan_i]) >= MAX_AGE
        => MarksItem /\ wpc' = "loop"]_vars

\* C3, amended: a job examined at age > MAX_AGE (strictly) is marked for
\* removal without a further attempt, whatever its attempts and last attempt,
\* and is gone when that scan ends; at exactly 1800 s it is not expired.
C3_ExpiredPastMaxAge ==
    [][/\ ExaminesItem /\ Age(tweet_gif_queue[scan_i]) > MAX_AGE
            => /\ MarksItem
               /\ wpc' = "loop"
               /\ Attempts(tweet_gif_queue'[scan_i])
                    = Attempts(tweet_gif_queue[scan_i])
       /\ ExaminesItem /\ Age(tweet_gif_queue[scan_i]) = MAX_AGE
            => ~MarksItem
       /\ wpc = "loop" /\ wpc' = "sleep"
            => \A k \in Marked : \A j \in DOMAIN tweet_gif_queue' :
                 tweet_gif_queue'[j].tweet_id # tweet_gif_queue[k].tweet_id
      ]_vars

\* a job with two attempts made is marked at an age above MAX_AGE
C3_Witness ==
    /\ wpc = "loop"
    /\ \E k \in Marked :
         /\ Age(tweet_gif_queue[k]) > MAX_AGE
         /\ Attempts(tweet_gif_queue[k]) = 2

\* C5: an attempt on a never-attempted job starts only at age >= 30 s, and
\* does start at the first scan that examines it at such an age (while the
\* job has not expired).
C5_GracePeriod ==
    [][ExaminesItem /\ LastAttempt(tweet_gif_queue[scan_i]) = None
        => (StartsAttempt <=>
              /\ Age(tweet_gif_queue[scan_i]) >= FIRST_WAIT
              /\ Age(tweet_gif_queue[scan_i]) <= MAX_AGE)]_vars

\* the first attempt of a job is running, started at age 30 s exactly
C5_Witness ==
    /\ wpc = "attempt"
    /\ tweet_gif_queue[scan_i].attempts = 1
    /\ tweet_gif_queue[scan_i].last_attempt
         = tweet_gif_queue[scan_i].timestamp + FIRST_WAIT

\* the waits of the claim, for n = 1..10 failed attempts
BackoffTable == <<60, 120, 240, 480, 600, 600, 600, 600, 600, 600>>

\* C6: after n = 1, 2, ... failed attempts the wait computed is
\* 60, 120, 240, 480, 600, 600, ...: non-decreasing and at most 600 s.
C6_BackoffSequence ==
    /\ \A i \in DOMAIN tweet_gif_queue :
         LET n == Attempts(tweet_gif_queue[i])
         IN  n >= 1 => wait_time(n) = BackoffTable[n]
    /\ \A n \in 1..MAX_ATTEMPTS :
         /\ wait_time(n) = BackoffTable[n]
         /\ wait_time(n) <= BACKOFF_CAP
         /\ n > 1 => wait_time(n - 1) <= wait_time(n)

\* a job waits after its fifth failed attempt, where the cap applies
C6_Witness ==
    \E i \in DOMAIN tweet_gif_queue :
        /\ Attempts(tweet_gif_queue[i]) = 5
        /\ i \notin Marked
        /\ wpc = "sleep"

\* C7: a job with n >= 1 attempts made is attempted again exactly when the
\* scan finds now - last_attempt >= backoff(n) (and the job not expired); a
\* job created at t has its first three attempts no earlier than t+30, t+90
\* and t+210.
C7_BackoffEligibility ==
    /\ [][(/\ ExaminesItem
           /\ LastAttempt(tweet_gif_queue[scan_i]) # None
           /\ Age(tweet_gif_queue[scan_i]) <= MAX_AGE)
            => (StartsAttempt <=>
                  now - LastAttempt(tweet_gif_queue[scan_i])
                    >= BackoffTable[Attempts(tweet_gif_queue[scan_i])])]_vars
    /\ [](\A i \in DOMAIN tweet_gif_queue :
            LET item == tweet_gif_queue[i]
                since == LastAttempt(item) - item.timestamp
            IN  /\ Attempts(item) = 1 => since >= 30
                /\ Attempts(item) = 2 => since >= 90
                /\ Attempts(item) = 3 => since >= 210)

\* a job created at t = 0 has its third attempt running, started at t = 210
C7_Witness ==
    /\ wpc = "attempt"
    /\ tweet_gif_queue[scan_i].timestamp = 0
    /\ tweet_gif_queue[scan_i].attempts = 3
    /\ tweet_gif_queue[scan_i].last_attempt = 210
    /\ now = 210

\* the tweet ids of the jobs of a queue, in order
JobIds(q) == [k \in DOMAIN q |-> q[k].tweet_id]

\* the worker is inside the for loop of a scan
InScan == wpc \in {"loop", "attempt"}

\* the worker's step that ends a scan: the marked items are popped
EndsScan == wpc = "loop" /\ wpc' = "sleep"

\* the items of q whose index is not in M, in order
Keep(q, M) ==
    LET idx == {k \in DOMAIN q : k \notin M}
    IN  [j \in 1..Cardinality(idx) |->
            q[CHOOSE k \in idx : Cardinality({m \in idx : m <= k}) = j]]

\* C13 as stated: a terminal job leaves the collection immediately, so the
\* clock never moves while a job marked terminal is still in the queue.
C13_Original ==
    [][InScan /\ Marked # {} => now' = now]_vars

\* C13, amended: a job marked terminal (success, attempts used up, expiry) is
\* not examined again in that scan, stays marked until the scan ends, and is
\* out of the queue when the scan ends; until then it is still in the queue,
\* while the jobs after it are attempted.
C13_RemovedAtScanEnd ==
    /\ [](InScan => Marked \subseteq DOMAIN tweet_gif_queue)
    /\ [][/\ ExaminesItem => scan_i \notin Marked
          /\ InScan /\ ~EndsScan => Marked \subseteq
                                      {items_to_remove'[k] :
                                          k \in DOMAIN items_to_remove'}
          /\ EndsScan =>
               \A k \in Marked : \A j \in DOMAIN tweet_gif_queue' :
                   tweet_gif_queue'[j].tweet_id # tweet_gif_queue[k].tweet_id
         ]_vars

\* the first job succeeded earlier in this scan and is still queued, marked,
\* after the attempt on the second job kept the worker busy
C13_Witness ==
    /\ wpc = "loop"
    /\ scan_i = 3
    /\ 1 \in Marked
    /\ Age(tweet_gif_queue[1]) <= MAX_AGE
    /\ Attempts(tweet_gif_queue[2]) >= 1
    /\ LastAttempt(tweet_gif_queue[2]) < now

\* C14: every queued job carries the reference of a create_tweet call that
\* succeeded for the same at-bat, and an at-bat whose create_tweet call
\* failed has no job in the queue.
C14_JobAfterPost ==
    /\ \A i \in DOMAIN tweet_gif_queue :
         LET job == tweet_gif_queue[i]
         IN  /\ job.tweet_id \in DOMAIN post_calls
             /\ post_calls[job.tweet_id].ok
             /\ post_calls[job.tweet_id].at_bat_id = job.at_bat_id
    /\ \A k \in DOMAIN post_calls :
         ~post_calls[k].ok =>
             \A i \in DOMAIN tweet_gif_queue :
                 tweet_gif_queue[i].at_bat_id # post_calls[k].at_bat_id

\* one at-bat's post failed and another's succeeded; a later poll has run and
\* the queue holds the one job
C14_Witness ==
    /\ Len(post_calls) = 2
    /\ \E k \in DOMAIN post_calls : ~post_calls[k].ok
    /\ Len(tweet_gif_queue) = 1
    /\ tweet_gif_queue[1].timestamp + POLL_INTERVAL < poll_at

\* the job that quotes tweet t is in the queue
Queued(t) == \E i \in DOMAIN tweet_gif_queue : tweet_gif_queue[i].tweet_id = t

\* C15: while the threads keep running and the clock moves on, every job in
\* the queue is removed at some later point, whatever its attempts return.
C15_EventuallyRemoved ==
    \A t \in 1..MaxAtBats : Queued(t) ~> ~Queued(t)

\* every attempt on a job has failed and the job is gone, removed by a scan
\* that found it older than MAX_AGE
C15_Witness ==
    /\ wpc = "sleep"
    /\ tweet_gif_queue = <<>>
    /\ Len(post_calls) = 1
    /\ post_calls[1].ok
    /\ items_to_remove = <<1>>
    /\ now > MAX_AGE

\* C16: whatever the attempt returns, the iteration goes on to the next item
\* with the queue and the earlier marks intact; a scan ends only after every
\* item has been examined, and then exactly the marked items are popped.
C16_FailureStaysInJob ==
    [][/\ wpc = "attempt" /\ wpc' # "attempt"
            => /\ wpc' = "loop"
               /\ scan_i' = scan_i + 1
               /\ tweet_gif_queue' = tweet_gif_queue
               /\ \/ items_to_remove' = items_to_remove
                  \/ items_to_remove' = Append(items_to_remove, scan_i)
       /\ wpc' = "sleep" /\ wpc # "sleep"
            => /\ wpc = "loop"
               /\ scan_i > Len(tweet_gif_queue)
               /\ tweet_gif_queue' = Keep(tweet_gif_queue, Marked)
      ]_vars

\* the attempt on the first job failed in this scan; the second job was then
\* attempted and marked, and the scan is about to apply the removal
C16_Witness ==
    /\ wpc = "loop"
    /\ scan_i = 3
    /\ Marked = {2}
    /\ Attempts(tweet_gif_queue[1]) >= 1
    /\ Attempts(tweet_gif_queue[2]) >= 1
    /\ LastAttempt(tweet_gif_queue[1]) = LastAttempt(tweet_gif_queue[2])

\* C17: a step other than the end of a scan keeps every queued job, in
\* order; a poll appends the jobs of its successful posts; the end of a scan
\* removes the marked jobs and no other, jobs queued during the scan
\* included.
C17_NoLostJob ==
    [][/\ ~EndsScan =>
            /\ Len(tweet_gif_queue') >= Len(tweet_gif_queue)
            /\ SubSeq(JobIds(tweet_gif_queue'), 1, Len(tweet_gif_queue))
                 = JobIds(tweet_gif_queue)
            /\ {tweet_gif_queue'[k].tweet_id :
                    k \in (Len(tweet_gif_queue) + 1)..Len(tweet_gif_queue')}
                 = {k \in (Len(post_calls) + 1)..Len(post_calls') :
                        post_calls'[k].ok}
       /\ EndsScan =>
            JobIds(tweet_gif_queue') = JobIds(Keep(tweet_gif_queue, Marked))
      ]_vars

\* the first job was attempted and marked in this scan, a poll queued the
\* second job while that attempt was running, and the scan is about to pop
C17_Witness ==
    /\ wpc = "loop"
    /\ scan_i = 3
    /\ Marked = {1}
    /\ Age(tweet_gif_queue[1]) <= MAX_AGE
    /\ tweet_gif_queue[2].timestamp > LastAttempt(tweet_gif_queue[1])

\* C18: a poll that is due can run in every state, whatever the worker is
\* doing, and runs to its end (posts, enqueues, next poll scheduled) in that
\* one step without a step of the worker.
C18_PollNeverBlocked ==
    /\ [](now >= poll_at => ENABLED check_alonso_at_bats)
    /\ [][poll_at' # poll_at
            => /\ UNCHANGED <<wpc, scan_i, items_to_remove, busy_until>>
               /\ poll_at' = now + POLL_INTERVAL]_vars

\* a poll has just posted a play and queued its job while the worker is
\* blocked in an attempt
C18_Witness ==
    /\ wpc = "attempt"
    /\ now < busy_until
    /\ poll_at = now + POLL_INTERVAL
    /\ \E i \in DOMAIN tweet_gif_queue : tweet_gif_queue[i].timestamp = now

-----------------------------------------------------------------------------
(* Properties of one attempt *)

\* download_and_convert_to_gif has returned, to get_gif_for_play or further
Transcoded ==
    gpc \in {"publish", "post", "unlink", "done"} /\ temp_video # None

\* C11: whenever get_gif_for_play has returned a path, no file larger than
\* 15 MB is at that path, and the file is there until it is published.
C11_ReturnedGifWithinLimit ==
    gif_returned # None =>
        /\ File("gif", gif_returned, TRUE) \notin files
        /\ gpc \in {"publish", "post", "unlink"}
              => File("gif", gif_returned, FALSE) \in files

\* get_gif_for_play has returned the path of a GIF within the limit, in a
\* call that follows one whose GIF was too large
C11_Witness ==
    /\ gpc = "publish"
    /\ gif_returned # None
    /\ File("gif", gif_returned, FALSE) \in files
    /\ \E f \in files : f.kind = "gif" /\ f.big /\ f.name # gif_returned

\* C12 as stated: once the transcoder has reported a failure, no output file
\* of that invocation larger than 15 MB is left.
C12_OversizeDeleted ==
    gpc = "done" /\ gif_path # None =>
        File("gif", gif_path, TRUE) \notin files

\* C19 as stated: once the transcoder has returned, neither the clip it
\* downloaded nor palette.png is left.
C19_ScratchDeleted ==
    Transcoded =>
        /\ File("webm", temp_video, FALSE) \notin files
        /\ File("palette", PALETTE, FALSE) \notin files

\* C20: the stages after the fetcher run only when the HEAD request answered
\* 200; on another status or a timeout the fetcher returns None, no GIF is
\* made, create_gif_quote_tweet returns False, and the worker goes on with
\* the attempt counted and the job left in the queue, unmarked.
C20_ProbeGatesUrl ==
    /\ [](gpc \in {"download", "palette", "encode", "size", "publish", "post",
                   "unlink"}
            => probe = "200" /\ returned # <<"None">>)
    /\ [](probe \in {"404", "timeout"}
            => /\ returned = <<"None">>
               /\ gpc = "done"
               /\ gif_returned = None
               /\ result = "False")
    /\ [][(probe \in {"404", "timeout"} /\ gpc' = "idle")
            => (/\ wpc' = "loop"
                /\ tweet_gif_queue' = tweet_gif_queue
                /\ tweet_gif_queue[scan_i].attempts >= 1
                /\ (~gives_up(tweet_gif_queue[scan_i])
                      => items_to_remove' = items_to_remove))
         ]_vars

\* the HEAD request of the job's second attempt timed out and the call has
\* returned False, with the two attempts counted
C20_Witness ==
    /\ gpc = "done"
    /\ probe = "timeout"
    /\ result = "False"
    /\ Attempts(tweet_gif_queue[scan_i]) = 2

-----------------------------------------------------------------------------
(* Properties of the matcher *)

Survivors ==
    {k \in DOMAIN all_plays : survives(all_plays[k], mlb_play_data.inning)}
ScoreOf(k) == score(all_plays[k], Lower(mlb_play_data.event))
HasRun == matched # None

\* C9: among the rows that pass the inning/batter filter, every row with the
\* contact flag scores strictly higher than every row without it (at least
\* 1000 against at most 175), so a contact row is selected when there is one.
C9_ContactDominates ==
    /\ \A i, j \in Survivors :
         is_contact(all_plays[i]) /\ ~is_contact(all_plays[j])
            => /\ ScoreOf(i) >= 1000
               /\ ScoreOf(j) <= 175
               /\ ScoreOf(i) > ScoreOf(j)
    /\ HasRun /\ (\E i \in Survivors : is_contact(all_plays[i]))
         => matched \in Survivors /\ is_contact(all_plays[matched])

\* the matcher has selected a contact row with no text or event match over
\* an earlier row without contact whose text and event both match
C9_Witness ==
    /\ HasRun
    /\ \E i, j \in Survivors :
         /\ j < i
         /\ ~is_contact(all_plays[j]) /\ ScoreOf(j) = 175
         /\ is_contact(all_plays[i]) /\ ScoreOf(i) = 1025
         /\ matched = i

\* the /gf answer of the scenario: a 'field_out' row without contact, then a
\* 'home run' row with contact, for a home run in inning 6
ScenarioA ==
    /\ mlb_play_data = [event |-> <<"H", "o", "m", "e", " ", "R", "u", "n">>, inning |-> 6]
    /\ Len(all_plays) = 2
    /\ all_plays[1] \in SurvivingRows /\ all_plays[2] \in SurvivingRows
    /\ all_plays[1].events = <<"f", "i", "e", "l", "d", "_", "o", "u", "t">> /\ ~is_contact(all_plays[1])
    /\ all_plays[2].events = <<"h", "o", "m", "e", " ", "r", "u", "n">> /\ is_contact(all_plays[2])

\* C10: the matcher selects a row whose score is maximal among the rows that
\* pass the filter (none only when no row passes); in the scenario it selects
\* the second row.
C10_SelectsMaximum ==
    HasRun =>
        /\ Survivors = {} => matched = 0
        /\ Survivors # {} =>
             /\ matched \in Survivors
             /\ \A k \in Survivors : ScoreOf(matched) >= ScoreOf(k)
        /\ ScenarioA => matched = 2

\* the matcher has run on the scenario and selected the second row
C10_Witness == HasRun /\ ScenarioA /\ matched = 2

-----------------------------------------------------------------------------
(* Properties of the detection across restarts and days *)

\* C21: once create_tweet has returned for an at-bat identifier, no later
\* poll calls create_tweet for that identifier again, the process having
\* been stopped and started again (the processed set reloaded from the
\* file) in between or not.
C21_NoRepostAfterRestart ==
    \A i, j \in DOMAIN post_calls :
        (i < j /\ post_calls[i].ok)
            => post_calls[j].at_bat_id # post_calls[i].at_bat_id

\* C22: a play of the feed that a poll has processed is recognised by every
\* later poll: the identifier the poll computes for it is the one in the
\* processed set.
C22_StableIdentifier ==
    \A p \in feed :
        (\E d \in 0..MaxDays : at_bat_id(p, d) \in processed_at_bats)
            => at_bat_id(p, today) \in processed_at_bats

-----------------------------------------------------------------------------
(* Properties of the attempts *)

\* the tweets the jobs of the queue q quote
TweetIds(q) == {q[k].tweet_id : k \in DOMAIN q}

\* the job of the queue q that quotes tweet t
JobOf(q, t) == q[CHOOSE k \in DOMAIN q : q[k].tweet_id = t]

\* C23: the step that starts an attempt on a job adds exactly one to its
\* attempts and sets its last_attempt to the time of the attempt, so both
\* are set when the call fails and the job is left in the queue; no other
\* step (a scan that skips the job, the end of the attempt, a poll) changes
\* either field of any job, and a job enters the queue with no attempt.
C23_AttemptCounted ==
    [][
        /\ \A t \in TweetIds(tweet_gif_queue) \cap TweetIds(tweet_gif_queue') :
              LET old == JobOf(tweet_gif_queue, t)
                  new == JobOf(tweet_gif_queue', t)
              IN  IF StartsAttempt /\ tweet_gif_queue[scan_i].tweet_id = t
                  THEN /\ Attempts(new) = Attempts(old) + 1
                       /\ LastAttempt(new) = now
                  ELSE /\ Attempts(new) = Attempts(old)
                       /\ LastAttempt(new) = LastAttempt(old)
        /\ \A t \in TweetIds(tweet_gif_queue') \ TweetIds(tweet_gif_queue) :
              /\ Attempts(JobOf(tweet_gif_queue', t)) = 0
              /\ LastAttempt(JobOf(tweet_gif_queue', t)) = None
        /\ (wpc = "attempt")
              => /\ Attempts(tweet_gif_queue[scan_i]) >= 1
                 /\ LastAttempt(tweet_gif_queue[scan_i]) # None
                 /\ LastAttempt(tweet_gif_queue[scan_i]) <= now
    ]_vars

\* a job left in the queue by a failed attempt is attempted a second time
\* while another job, skipped by the scans so far, has no attempt
C23_Witness ==
    /\ wpc = "attempt"
    /\ Attempts(tweet_gif_queue[scan_i]) = 2
    /\ \E k \in DOMAIN tweet_gif_queue :
          /\ k # scan_i
          /\ "attempts" \in DOMAIN tweet_gif_queue[k]
          /\ Attempts(tweet_gif_queue[k]) = 0

-----------------------------------------------------------------------------
(* Properties of the stages of an attempt *)

\* the stages of create_gif_quote_tweet in the order of the code: the
\* Statcast search and the choice of the row (match), the HEAD request
\* (resolve, in the same step), the download and the two ffmpeg runs
\* (transcode), the upload, the post and the removal of the GIF (publish)
StageOrder == <<"idle", "statcast", "url", "download", "palette", "encode",
                "size", "publish", "post", "unlink", "done">>
BeforePublish == {"statcast", "url", "download", "palette", "encode", "size"}
Publishing == {"publish", "post", "unlink"}
GifNames(fs) == {f.name : f \in {g \in fs : g.kind = "gif"}}

\* the call returns False to the worker, which goes on with the next item
ReturnsFailure == gpc = "done" /\ result = "False" /\ gpc' = "idle"

\* C24: a stage is entered only from the stage before it, a failing stage
\* goes straight to the return of False; the transcoder runs only with a row
\* matched and a URL that answered 200, the upload only with, besides, a GIF
\* made within the limit; a failure before the upload makes the call return
\* False with no upload, and the job is left in the queue, unmarked, with
\* the attempt counted.
C24_StagesInOrder ==
    /\ [][gpc' # gpc
            => (\/ \E k \in 1..(Len(StageOrder) - 1) :
                      gpc = StageOrder[k] /\ gpc' = StageOrder[k + 1]
                \/ gpc \in BeforePublish \cup Publishing /\ gpc' = "done"
                \/ gpc = "done" /\ gpc' = "idle")
         ]_vars
    /\ [](gpc \in {"download", "palette", "encode", "size"} \cup Publishing
            => matched # 0 /\ probe = "200" /\ returned # <<"None">>)
    /\ [](gpc \in Publishing
            => /\ gif_returned # None
               /\ File("gif", gif_returned, FALSE) \in files)
    /\ [][(gpc \in BeforePublish /\ gpc' = "done")
            => (result' = "False" /\ gif_returned' = None)
         ]_vars
    /\ [][(ReturnsFailure /\ gif_returned = None)
            => (/\ wpc' = "loop"
                /\ tweet_gif_queue' = tweet_gif_queue
                /\ Attempts(tweet_gif_queue[scan_i]) >= 1
                /\ (Attempts(tweet_gif_queue[scan_i]) < MAX_ATTEMPTS
                      => items_to_remove' = items_to_remove))
         ]_vars

\* the call has returned False after a failure of the transcoder, the row
\* having been matched and its URL resolved
C24_Witness ==
    /\ gpc = "done"
    /\ result = "False"
    /\ matched # 0
    /\ probe = "200"
    /\ temp_video # None
    /\ gif_returned = None

\* C25: when media_upload or update_status fails the call returns False;
\* the worker leaves the job in the queue, unmarked while its attempts are
\* below 10, with the attempts it had when the call started (the attempt
\* was counted once, before the call), and the next attempt on it starts
\* only when the backoff delay for that count has passed.
C25_PublishFailureRetried ==
    /\ [][(gpc \in {"publish", "post"} /\ gpc' = "done")
            => (/\ result' = "False"
                /\ tweet_gif_queue' = tweet_gif_queue
                /\ items_to_remove' = items_to_remove)
         ]_vars
    /\ [][(ReturnsFailure /\ gif_returned # None)
            => (/\ wpc' = "loop"
                /\ scan_i' = scan_i + 1
                /\ tweet_gif_queue' = tweet_gif_queue
                /\ Attempts(tweet_gif_queue[scan_i]) >= 1
                /\ items_to_remove' =
                      IF Attempts(tweet_gif_queue[scan_i]) >= MAX_ATTEMPTS
                      THEN Append(items_to_remove, scan_i)
                      ELSE items_to_remove)
         ]_vars
    /\ [][gpc # "idle" => tweet_gif_queue' = tweet_gif_queue]_vars
    /\ [][(StartsAttempt /\ LastAttempt(tweet_gif_queue[scan_i]) # None)
            => (now - LastAttempt(tweet_gif_queue[scan_i])
                  >= wait_time(Attempts(tweet_gif_queue[scan_i])))
         ]_vars

\* the post of the job's second attempt has failed, the GIF of the first
\* attempt, whose publication failed too or whose encoding broke, being
\* still on the disk
C25_Witness ==
    /\ gpc = "done"
    /\ result = "False"
    /\ gif_returned # None
    /\ Attempts(tweet_gif_queue[scan_i]) = 2
    /\ \E n \in GifNames(files) : n # gif_returned

\* C26: the GIF of the call is on the disk while it is uploaded and posted;
\* a GIF leaves the disk only in the step that follows the return of
\* update_status, and it is the GIF of the call; when the call has returned
\* True the GIF is gone and the worker marks the job for removal.
C26_DeletedAfterPublish ==
    /\ [](gpc \in Publishing => gif_returned \in GifNames(files))
    /\ [][GifNames(files') # GifNames(files)
            => (\/ GifNames(files') = GifNames(files) \cup {gif_path}
                \/ /\ gpc = "unlink"
                   /\ GifNames(files') = GifNames(files) \ {gif_returned})
         ]_vars
    /\ [](gpc = "done" /\ result = "True"
            => gif_returned \notin GifNames(files))
    /\ [][(gpc = "done" /\ result = "True" /\ gpc' = "idle")
            => items_to_remove' = Append(items_to_remove, scan_i)
         ]_vars

\* the call of the job's second attempt has returned True
C26_Witness ==
    /\ gpc = "done"
    /\ result = "True"
    /\ gif_returned # None
    /\ gif_returned \notin GifNames(files)
    /\ Attempts(tweet_gif_queue[scan_i]) = 2

-----------------------------------------------------------------------------
(* Properties of the matcher's filter and score *)

\* one name is in the other, letter case ignored
names_match(a, b) ==
    Contains(Lower(a), Lower(b)) \/ Contains(Lower(b), Lower(a))

\* the row k, a candidate (it has a play_id), has the inning of the play and
\* a batter name that matches the name of the play's batter
PassesFilter(k) ==
    /\ all_plays[k].play_id # <<>>
    /\ Str(all_plays[k].inning) = Str(mlb_play_data.inning)
    /\ names_match(all_plays[k].batter_name, mlb_play_data.batter)

\* C27 as stated: the row the matcher selects has the inning of the play and
\* a batter name that matches the name of the play's batter, and the matcher
\* selects none exactly when no candidate has both.
C27_FilterByPlayBatter ==
    HasRun =>
        /\ matched # 0 => PassesFilter(matched)
        /\ matched = 0 <=> ~ \E k \in DOMAIN all_plays : PassesFilter(k)

\* the parts of the score of row k: 1000 c + 100 d + 50 e + 25
Bonus100(k) == (ScoreOf(k) % 1000) >= 100
Bonus50(k) == (ScoreOf(k) % 100) >= 50

\* lower case, spaces removed
Normalised(str) == RemoveSpaces(Lower(str))

\* C28 as stated: a row the matcher has scored has the +50 exactly when its
\* events field, in lower case, is the event of the play, in lower case.
C28_EventEquality ==
    HasRun => \A k \in Survivors :
        Bonus50(k) <=> Lower(all_plays[k].events) = Lower(mlb_play_data.event)

C30_FirstOfTies ==
    (HasRun /\ matched # 0) =>
        /\ matched \in Survivors
        /\ \A k \in Survivors :
              /\ ScoreOf(k) <= ScoreOf(matched)
              /\ ScoreOf(k) = ScoreOf(matched) => matched <= k

\* two different rows have the highest score and the first is selected
C30_Witness ==
    /\ HasRun
    /\ matched = 1
    /\ \E k \in Survivors :
          /\ k > 1
          /\ all_plays[k] # all_plays[1]
          /\ ScoreOf(k) = ScoreOf(1)

-----------------------------------------------------------------------------
(* Properties of the outcome of the jobs *)

\* C35 as stated: no tweet is replied to twice by update_status, and no
\* attempt is started on a job whose follow-up has been posted.
C35_OneFollowUp ==
    /\ \A i, j \in DOMAIN quote_tweets :
          i # j => quote_tweets[i] # quote_tweets[j]
    /\ (gpc = "statcast")
          => \A i \in DOMAIN quote_tweets :
                quote_tweets[i] # tweet_gif_queue[scan_i].tweet_id

\* C37 as stated: once the job has left the queue, no GIF that an attempt on
\* it produced is left on disk.
C37_ArtifactsDeleted ==
    tweet_gif_queue = <<>> => GifNames(files) = {}

\* the earliest age at which the k-th attempt on a job can start
EarliestAttempt == <<30, 90, 210, 450, 930, 1530>>

\* C34: a job whose attempts all fail has at most 6 attempts started, the
\* k-th no earlier than 30, 90, 210, 450, 930, 1530 s after its creation; its
\* attempt count never reaches MAX_ATTEMPTS, so the give-up branch is never
\* taken, and a scan marks the job without a successful attempt only when it
\* has found it older than MAX_AGE.
C34_SixAttemptsThenExpired ==
    /\ [](\A i \in DOMAIN tweet_gif_queue :
            LET item == tweet_gif_queue[i]
            IN  /\ Attempts(item) <= Len(EarliestAttempt)
                /\ Attempts(item) >= 1 =>
                      LastAttempt(item) - item.timestamp
                        >= EarliestAttempt[Attempts(item)]
                /\ Attempts(item) < MAX_ATTEMPTS
                /\ ~gives_up(with_attempts(item)))
    /\ [][(MarksItem /\ wpc' = "loop" /\ wpc = "loop")
            => (Age(tweet_gif_queue[scan_i]) > MAX_AGE)
         ]_vars

\* a job whose six attempts started at the earliest ages and failed has been
\* found older than MAX_AGE and is marked for removal
C34_Witness ==
    /\ wpc = "loop"
    /\ \E i \in Marked :
          /\ i < scan_i
          /\ i <= Len(tweet_gif_queue)
          /\ Attempts(tweet_gif_queue[i]) = 6
          /\ LastAttempt(tweet_gif_queue[i]) - tweet_gif_queue[i].timestamp = 1530
          /\ Age(tweet_gif_queue[i]) > MAX_AGE

-----------------------------------------------------------------------------
(* Properties of the primary post *)

\* C36: no two calls of the primary post, successful or not, are for the
\* same at-bat identifier, and the identifier of every call made is in
\* processed_at_bats when the poll is over, so a failed post is not retried.
C36_OnePrimaryPost ==
    /\ \A i, j \in DOMAIN post_calls :
          i # j => post_calls[i].at_bat_id # post_calls[j].at_bat_id
    /\ \A k \in DOMAIN post_calls :
          post_calls[k].at_bat_id \in processed_at_bats

\* the post of an at-bat failed, the at-bat is still in the feed, and two
\* later polls have run without another call for it
C36_Witness ==
    /\ Len(post_calls) = 1
    /\ ~post_calls[1].ok
    /\ \E p \in feed : at_bat_id(p, today) = post_calls[1].at_bat_id
    /\ poll_at >= 3 * POLL_INTERVAL

-----------------------------------------------------------------------------
(* Properties across jobs *)

\* the transition by which the step of the worker marks item scan_i
Outcome ==
    IF wpc = "loop" THEN "EXPIRED"
    ELSE IF own_result(tweet_gif_queue[scan_i]) THEN "SUCCEEDED"
    ELSE "ABANDONED"

\* the job as post_tweet_with_gif_followup queued it
AsQueued(item) ==
    [tweet_id |-> item.tweet_id, at_bat_id |-> item.at_bat_id,
     timestamp |-> item.timestamp]

\* C33 as stated: the job with a pipeline of its own leaves the queue by the
\* transition by which it leaves it when it is alone in the queue, whatever
\* other job is in the queue and whatever that job's calls take and return.
C33_Independent ==
    [][(MarksItem /\ IsOwn(tweet_gif_queue[scan_i]))
         => (Outcome = alone(with_attempts(AsQueued(tweet_gif_queue[scan_i])),
                             tweet_gif_queue[scan_i].timestamp))
    ]_vars

\* C32 as stated: two calls of the transcoder that are running at the same
\* time have opened no raw-clip file and no palette file in common.
C32_PrivateScratch ==
    \A a, b \in touched :
        a.by # b.by => ~(a.kind = b.kind /\ a.name = b.name)

-----------------------------------------------------------------------------
(* Properties of the Mets home-run tracker *)

\* C31 as stated: once stop_monitoring has been called, the worker loop
\* passes its loop test no more, so it starts no cycle and takes no job.
C31_NoCycleAfterStop ==
    [][(mpc = "test" /\ mpc' = "get") => ~stopped]_vars

\* the objects in the queue, by serial
QueuedSerials ==
    {home_run_queue[k].serial : k \in DOMAIN home_run_queue}

\* the objects posted, by serial
PostedSerials == {discord_posts[k] : k \in DOMAIN discord_posts}

\* C38: the attempts of a home-run object never exceed 5 (and are below 5
\* while it is queued); the worker puts an object back only after a failed
\* post with attempts < 5; after 5 failed attempts or a successful post the
\* object is in the queue no more; no object is posted twice.
C38_FiveAttemptsOnePost ==
    /\ [](/\ \A k \in DOMAIN home_run_queue :
               home_run_queue[k].attempts < MAX_POST_ATTEMPTS
          /\ home_run # NoJob => home_run.attempts <= MAX_POST_ATTEMPTS
          /\ PostedSerials \cap QueuedSerials = {}
          /\ home_run # NoJob => home_run.serial \notin PostedSerials
          /\ \A i, j \in DOMAIN discord_posts :
                i # j => discord_posts[i] # discord_posts[j])
    /\ [][(mpc = "requeue" /\ mpc' # "requeue")
            => (/\ home_run.attempts < MAX_POST_ATTEMPTS
                /\ home_run.serial \notin PostedSerials
                /\ home_run_queue' = Append(home_run_queue, home_run))
         ]_vars
    /\ [][(mpc = "post" /\ mpc' # "post")
            => (\/ /\ discord_posts' = Append(discord_posts, home_run.serial)
                   /\ mpc' = "sleep"
                \/ /\ discord_posts' = discord_posts
                   /\ home_run.attempts = MAX_POST_ATTEMPTS
                   /\ mpc' = "sleep"
                \/ /\ discord_posts' = discord_posts
                   /\ home_run.attempts < MAX_POST_ATTEMPTS
                   /\ mpc' = "requeue")
         ]_vars
    /\ [][(mpc = "sleep" /\ mpc' # "sleep")
            => (home_run_queue' = home_run_queue)
         ]_vars

\* the fifth attempt on a home run is running, after four failed posts
C38_Witness ==
    /\ mpc = "post"
    /\ home_run.attempts = MAX_POST_ATTEMPTS
    /\ discord_posts = <<>>
    /\ home_run_queue = <<>>

\* C39 as stated: no play has two MetsHomeRun objects queued for it, in any
\* cycles of the monitoring loop.
C39_QueuedOnce ==
    \A i, j \in DOMAIN hr_jobs : i # j => hr_jobs[i] # hr_jobs[j]

-----------------------------------------------------------------------------
(* Properties of the dashboard *)

\* the threads that are in the monitoring loop of a tracker whose
\* monitoring_active is set
ActiveLoops ==
    {t \in DOMAIN threads :
        threads[t].pc = "monitor" /\ instances[threads[t].on]}

\* C40 as stated: at most one monitoring loop is active at a time, under any
\* order of page loads, start and stop requests.
C40_OneMonitoringLoop ==
    Cardinality(ActiveLoops) <= 1

====
